---- MODULE Spec2Model ----
(***************************************************************************)
(* Model of the topoma map application: the host (src/App.tsx) and the map *)
(* component (src/components/MapComponent.tsx) with the geodesy helpers of *)
(* services/geoService (src/unnamed/part_002, lines 690-771).              *)
(*                                                                         *)
(* Numbers.  Map coordinates are whole metres of the rendering plane       *)
(* (EPSG:3857).  A resolution is kept in units of 1e-4 metre per pixel, so *)
(* that 0.26458 m/px is the integer 2645.  Latitudes are whole degrees,    *)
(* quantised to the rows of the cosine table.  NaN and -Infinity, which    *)
(* JavaScript produces on an empty extent, are the sentinels below.        *)
(***************************************************************************)
EXTENDS Integers, Sequences, FiniteSets, TLC

\* ------------------------------------------------------------------ bounds
MaxInFlight == 2        \* exports started by startClipping and not yet finished
MaxPending == 1         \* file readers / position requests not yet answered
MaxPoints == 1          \* features in the points collection, manual points per session
MaxMeasures == 1        \* features in the measurements collection
MaxListeners == 2       \* pointermove listeners subscribed by measurement draws
MaxRows == 3            \* rows of an imported sheet
MaxEntities == 2        \* entities of an imported drawing

\* ------------------------------------------------------- program constants
MaxCanvasDim == 16384   \* MapComponent.tsx:645

\* ---------------------------------------------------------------- numbers
Abs(n) == IF n < 0 THEN -n ELSE n
Max(a, b) == IF a >= b THEN a ELSE b
Min(a, b) == IF a <= b THEN a ELSE b

\* a quotient rounded down instead of up
FloorDiv(a, b) == a \div b

\* Math.ceil(a / b) for b > 0
CeilDiv(a, b) == IF a >= 0 THEN (a + b - 1) \div b ELSE -((-a) \div b)

NegInfinity == -(2^30)          \* Math.ceil(-Infinity / r)
NaNResolution == -(2^30) - 1    \* a NaN stored as a resolution
NaNPoint == <<>>                \* a coordinate pair of NaN
EmptyExtent == <<>>             \* ol createEmpty(): [Inf, Inf, -Inf, -Inf]

\* ------------------------------------------------------------ geoService
\* cos(lat * PI / 180) * 1e4 for the tabulated latitudes
CosE4(lat) ==
    CASE Abs(lat) = 0 -> 10000
      [] Abs(lat) = 33 -> 8387
      [] OTHER -> 5000

\* Latitude (degrees) of a northing of the rendering plane: the inverse
\* Mercator of proj4('EPSG:3857', 'EPSG:4326'), quantised to the rows 0, 33, 60.
LatOfY(y) ==
    LET row == IF Abs(y) < 2000000 THEN 0 ELSE IF Abs(y) < 6000000 THEN 33 ELSE 60
    IN IF y < 0 THEN -row ELSE row

\* convertToWGS84(x, y).lat; a NaN input makes proj4 throw and the catch
\* branch answers '0.000000'.
convertToWGS84Lat(c) == IF c = NaNPoint THEN 0 ELSE LatOfY(c[2])

\* getResolutionFromScale: (scaleValue * 0.000264583333) / cos(lat), in 1e-4 m/px.
\* 0.000264583333 is kept to five digits (26458e-8).
getResolutionFromScale(scaleValue, lat) == (scaleValue * 26458) \div CosE4(lat)

\* Number.prototype.toFixed(0) of a quotient a / b of naturals: the nearest whole
\* number, the larger one on a tie, written in decimal
toFixed0(a, b) == ToString((a + b \div 2) \div b)

\* toFixed(0) with the fraction cut off instead of rounded
calculateScaleTruncated(resolution, lat) ==
    ToString((resolution * CosE4(lat)) \div 264580)

\* calculateScale: (resolution * cos(lat)) / 0.000264583333, as toFixed(0) writes
\* it.  The resolution is taken in 1e-5 m/px here, which is what
\* getResolutionFromScale yields for a denominator given in tenths.
calculateScale(resolution, lat) == toFixed0(resolution * CosE4(lat), 264580)

\* toLonLat(center)[1] followed by getResolutionFromScale, as setMapScale does:
\* a NaN centre gives a NaN resolution.
ResolutionAtCenter(scaleValue, c) ==
    IF c = NaNPoint THEN NaNResolution
    ELSE getResolutionFromScale(scaleValue, LatOfY(c[2]))

\* 156543.03392804097 / 2^zoom metres per pixel, in 1e-4 m/px (ol View.setZoom)
ZoomResolution(zoom) ==
    CASE zoom = 6 -> 24459849
      [] zoom = 16 -> 23887
      [] OTHER -> 5972

\* --------------------------------------------- geoService: projectFromZone
\* Zone coordinates are whole metres; degrees are kept in units of 1e-4 degree,
\* so that under the geodetic zone the raw value 900000 is 90 degrees.
NaN == -(2^30) - 2              \* a NaN coordinate value
IsNaN(v) == v = NaN
Null == <<>>                    \* the null of projectFromZone and of transform

GeodeticZone == "EPSG:4326"
RegionalZones == {"EPSG:26191", "EPSG:26192", "EPSG:26194", "EPSG:26195"}

\* the zone coordinates the model evaluates the regional transforms at
SampleXs == {-2000000, 0, 500000, 1200000, 1500000}
SampleYs == {0, 300000, 400000, 2000000}

\* proj4(zoneCode, 'EPSG:4326', [x, y]) at the sample coordinates: the inverse
\* Lambert conformal conic of the zone definition (Clarke 1880 IGN ellipsoid)
\* followed by the datum shift +towgs84=31,146,47, as <<lng, lat>>
Proj4Table ==
    "EPSG:26191" :>
       (   <<-2000000, 0>> :> <<-309245, 278261>> @@ <<-2000000, 300000>> :> <<-316802, 304438>>
        @@ <<-2000000, 400000>> :> <<-319419, 313166>> @@ <<-2000000, 2000000>> :> <<-369468, 450978>>
        @@ <<0, 0>> :> <<-106036, 304796>> @@ <<0, 300000>> :> <<-107640, 331815>>
        @@ <<0, 400000>> :> <<-108197, 340822>> @@ <<0, 2000000>> :> <<-118988, 482891>>
        @@ <<500000, 0>> :> <<-53985, 305919>> @@ <<500000, 300000>> :> <<-53984, 332974>>
        @@ <<500000, 400000>> :> <<-53984, 341992>> @@ <<500000, 2000000>> :> <<-53980, 484240>>
        @@ <<1200000, 0>> :> <<18830, 303716>> @@ <<1200000, 300000>> :> <<21071, 330701>>
        @@ <<1200000, 400000>> :> <<21849, 339697>> @@ <<1200000, 2000000>> :> <<36918, 481593>>
        @@ <<1500000, 0>> :> <<49861, 301430>> @@ <<1500000, 300000>> :> <<53045, 328343>>
        @@ <<1500000, 400000>> :> <<54150, 337315>> @@ <<1500000, 2000000>> :> <<75534, 478846>>)
  @@
    "EPSG:26192" :>
       (   <<-2000000, 0>> :> <<-301795, 245685>> @@ <<-2000000, 300000>> :> <<-308231, 272079>>
        @@ <<-2000000, 400000>> :> <<-310449, 280882>> @@ <<-2000000, 2000000>> :> <<-351938, 420065>>
        @@ <<0, 0>> :> <<-104288, 268926>> @@ <<0, 300000>> :> <<-105635, 295969>>
        @@ <<0, 400000>> :> <<-106100, 304984>> @@ <<0, 2000000>> :> <<-114870, 447205>>
        @@ <<500000, 0>> :> <<-53985, 269906>> @@ <<500000, 300000>> :> <<-53985, 296976>>
        @@ <<500000, 400000>> :> <<-53985, 306000>> @@ <<500000, 2000000>> :> <<-53981, 448346>>
        @@ <<1200000, 0>> :> <<16396, 267984>> @@ <<1200000, 300000>> :> <<18279, 295000>>
        @@ <<1200000, 400000>> :> <<18929, 304007>> @@ <<1200000, 2000000>> :> <<31188, 446107>>
        @@ <<1500000, 0>> :> <<46430, 265988>> @@ <<1500000, 300000>> :> <<49110, 292949>>
        @@ <<1500000, 400000>> :> <<50035, 301938>> @@ <<1500000, 2000000>> :> <<67460, 443781>>)
  @@
    "EPSG:26194" :>
       (   <<-2000000, 0>> :> <<-358771, 191037>> @@ <<-2000000, 300000>> :> <<-365478, 217261>>
        @@ <<-2000000, 400000>> :> <<-367779, 226016>> @@ <<-2000000, 2000000>> :> <<-409699, 365078>>
        @@ <<0, 0>> :> <<-170104, 220051>> @@ <<0, 300000>> :> <<-172744, 247006>>
        @@ <<0, 400000>> :> <<-173651, 255998>> @@ <<0, 2000000>> :> <<-190294, 398261>>
        @@ <<500000, 0>> :> <<-121840, 223231>> @@ <<500000, 300000>> :> <<-123388, 250265>>
        @@ <<500000, 400000>> :> <<-123920, 259282>> @@ <<500000, 2000000>> :> <<-133690, 401879>>
        @@ <<1200000, 0>> :> <<-53986, 224875>> @@ <<1200000, 300000>> :> <<-53985, 251949>>
        @@ <<1200000, 400000>> :> <<-53985, 260978>> @@ <<1200000, 2000000>> :> <<-53983, 403747>>
        @@ <<1500000, 0>> :> <<-24884, 224573>> @@ <<1500000, 300000>> :> <<-24218, 251639>>
        @@ <<1500000, 400000>> :> <<-23990, 260666>> @@ <<1500000, 2000000>> :> <<-19788, 403403>>)
  @@
    "EPSG:26195" :>
       (   <<-2000000, 0>> :> <<-380373, 154396>> @@ <<-2000000, 300000>> :> <<-386486, 180728>>
        @@ <<-2000000, 400000>> :> <<-388574, 189522>> @@ <<-2000000, 2000000>> :> <<-425866, 329389>>
        @@ <<0, 0>> :> <<-195700, 182457>> @@ <<0, 300000>> :> <<-198425, 209408>>
        @@ <<0, 400000>> :> <<-199357, 218399>> @@ <<0, 2000000>> :> <<-216085, 360733>>
        @@ <<500000, 0>> :> <<-148618, 186012>> @@ <<500000, 300000>> :> <<-150445, 213037>>
        @@ <<500000, 400000>> :> <<-151069, 222052>> @@ <<500000, 2000000>> :> <<-162286, 364677>>
        @@ <<1200000, 0>> :> <<-82410, 188605>> @@ <<1200000, 300000>> :> <<-82960, 215685>>
        @@ <<1200000, 400000>> :> <<-83148, 224717>> @@ <<1200000, 2000000>> :> <<-86526, 367552>>
        @@ <<1500000, 0>> :> <<-53986, 188862>> @@ <<1500000, 300000>> :> <<-53986, 215947>>
        @@ <<1500000, 400000>> :> <<-53986, 224981>> @@ <<1500000, 2000000>> :> <<-53983, 367836>>)

\* what a call of proj4 does: it throws for a zone code without a definition and
\* for a coordinate that is not a finite number
proj4(zoneCode, x, y) ==
    IF zoneCode \notin RegionalZones \/ IsNaN(x) \/ IsNaN(y)
    THEN [threw |-> TRUE, coords |-> <<>>]
    ELSE [threw |-> FALSE, coords |-> Proj4Table[zoneCode][<<x, y>>]]

\* the geodetic range with its bounds left out
InGeodeticRangeOpen(x, y) ==
    ~IsNaN(x) /\ ~IsNaN(y) /\ Abs(y) < 900000 /\ Abs(x) < 1800000

\* Math.abs(y) <= 90 && Math.abs(x) <= 180; a comparison with NaN is false
InGeodeticRange(x, y) ==
    ~IsNaN(x) /\ ~IsNaN(y) /\ Abs(y) <= 900000 /\ Abs(x) <= 1800000

\* an envelope check that accepts every finite result
InEnvelopeAny(lng, lat) == ~IsNaN(lng) /\ ~IsNaN(lat)

\* lat >= 20 && lat <= 38 && lng >= -19 && lng <= 1 && !isNaN(lng) && !isNaN(lat)
InEnvelope(lng, lat) ==
    /\ lat >= 200000 /\ lat <= 380000 /\ lng >= -190000 /\ lng <= 10000
    /\ ~IsNaN(lng) /\ ~IsNaN(lat)

\* projectFromZone(x, y, zoneCode): <<lng, lat>> or Null; the catch branch turns
\* a throw of proj4 into Null
projectFromZone(x, y, zoneCode) ==
    IF zoneCode = GeodeticZone
    THEN IF InGeodeticRange(x, y) THEN <<x, y>> ELSE Null
    ELSE LET r == proj4(zoneCode, x, y)
         IN IF r.threw THEN Null
            ELSE IF InEnvelope(r.coords[1], r.coords[2]) THEN r.coords ELSE Null

\* ol fromLonLat([lng, lat]) at the latitudes the imports of the model produce:
\* x = 6378137 * lng * PI / 180, y = 6378137 * ln(tan(PI * (lat + 90) / 360)),
\* which is NaN for a latitude beyond the poles
MercatorY(lat) ==
    CASE IsNaN(lat) \/ Abs(lat) > 900000 -> NaN
      [] lat = 0 -> 0
      [] lat = 300000 -> 3503550
      [] lat = 304796 -> 3565348
      [] lat = 332974 -> 3934846
fromLonLat(ll) ==
    <<IF IsNaN(ll[1]) THEN NaN ELSE ((ll[1] \div 100) * 11132) \div 10, MercatorY(ll[2])>>

\* ------------------------------------------------------------- geometry
\* A feature is [geom, ext, label]: geom in {"Polygon", "LineString", "Point"},
\* ext its bounding extent <<minX, minY, maxX, maxY>>.
Feature(g, e, l) == [geom |-> g, ext |-> e, label |-> l]

RECURSIVE ExtentOf(_)
\* VectorSource.getExtent(): the bounding extent of the features of a source
ExtentOf(fs) ==
    IF fs = <<>> THEN EmptyExtent
    ELSE LET e == fs[1].ext
             r == ExtentOf(Tail(fs))
         IN IF r = EmptyExtent THEN e
            ELSE <<Min(e[1], r[1]), Min(e[2], r[2]), Max(e[3], r[3]), Max(e[4], r[4])>>

\* [(extent[0] + extent[2]) / 2, (extent[1] + extent[3]) / 2]
ExtentCenter(e) ==
    IF e = EmptyExtent THEN NaNPoint
    ELSE <<(e[1] + e[3]) \div 2, (e[2] + e[4]) \div 2>>

\* View.fit(extent, {padding: [p, p, p, p]}): the resolution at which the extent
\* fills the map size less the padding
FitResolution(e, size, p) ==
    LET w == Max(size[1] - 2 * p, 1)
        h == Max(size[2] - 2 * p, 1)
        \* Math.ceil(span * 10000 / n), the quotient and the remainder of the span
        \* scaled apart to stay within 32 bits
        PerPixel(span, n) == (span \div n) * 10000 + CeilDiv((span % n) * 10000, n)
    IN Max(Max(PerPixel(e[3] - e[1], w), PerPixel(e[4] - e[2], h)), 1)

\* --------------------------------------------- MapComponent: measure texts
\* Number.toFixed: a text is the number value / 10^decimals followed by a suffix
\* (the superscript of the area suffixes is written 2)
Text(v, d, sfx) == [value |-> v, decimals |-> d, suffix |-> sfx]
\* an element that was just created (innerHTML '')
NoText == Text(0, 0, "")
\* a / b rounded to the nearest integer, a >= 0
RoundDiv(a, b) == (2 * a + b) \div (2 * b)

\* ol/sphere getLength, in centimetres.  A LineString of the model runs along the
\* bottom and the right edge of its extent; near the equator the length on the
\* sphere of radius 6371008.8 is the planar length times 6371008.8 / 6378137
getLength(f) ==
    (((f.ext[3] - f.ext[1]) + (f.ext[4] - f.ext[2])) * 9989) \div 100
\* ol/sphere getArea, in square metres, of the rectangle filling the extent
getArea(f) ==
    (((f.ext[3] - f.ext[1]) * (f.ext[4] - f.ext[2])) * 9978) \div 10000

formatLength(line, unit) ==
    LET length == getLength(line)
    IN IF unit = "km" THEN Text(RoundDiv(length, 1000), 2, " km")
       ELSE IF unit = "ft" THEN Text(RoundDiv(length * 32808, 10000), 2, " ft")
       ELSE IF unit = "mi" THEN Text(RoundDiv(length * 6214, 1000000), 3, " mi")
       ELSE Text(length, 2, " m")

formatAreaMetric(polygon, unit) ==
    LET area == getArea(polygon)
    IN IF unit = "ha" THEN Text(RoundDiv(area, 100), 2, " ha")
       ELSE IF unit = "sqkm" THEN Text(RoundDiv(area, 10000), 2, " km2")
       ELSE IF unit = "ac" THEN Text(RoundDiv(area * 24711, 1000000), 2, " ac")
       ELSE Text(area * 100, 2, " m2")

\* ---------------------------------------------------------------- state
VARIABLES
    \* MapComponent
    view,                    \* [size, resolution, center] of the map and its view
    sourceRef,               \* clip boundary (selection) features
    kmlSourceRef,            \* imported features
    pointsSourceRef,         \* point features
    measureSourceRef,        \* measurement features
    interactions,            \* map.getInteractions(), in order
    sketchRef,               \* "null" or the geometry type of the measured sketch
    pointerMoveListenerRef,  \* 0 (null) or the key of the last pointermove listener
    pointerListeners,        \* keys of the measurement pointermove listeners subscribed
    currentMeasureUnitRef,
    measureTooltipElementRef, \* innerHTML of the live measure tooltip element
    activeMeasurementsRef,   \* records [feature, overlay (its element's innerHTML), type]
    renderListeners,         \* pending once('rendercomplete') listeners of getMapCanvas
    \* App
    exportData,              \* <<>> (null) or <<SelectionData>>
    step,
    activeTool,
    zipBlob,
    selectedScale,
    measureUnit,
    pointCounter,
    timers,                  \* setTimeout closures of startClipping, not yet fired
    packaging,               \* startClipping continuations awaiting the zip
    pendingFiles,            \* file readers not yet loaded: "KML", "SHP", "DXF", "XLS"
    pendingLocate,           \* getCurrentPosition requests not yet answered
    \* MapComponent: the popup overlay
    popupContent,            \* the point the visible popup describes, or NoPointPopup
    lookups,                 \* fetchElevation calls of showPointPopup not yet answered
    \* history (not program state)
    lastTool,                \* argument of the last setDrawTool / setMeasureTool call
    lastCall,                \* what the last getMapCanvas call computed and returned
    lastDispatch,            \* what the last render-complete dispatch resolved
    lastInput,               \* the draw or import completed by the step just taken
    delivered                \* the SelectionData that step passed to onSelectionComplete

mapVars == <<view, sourceRef, kmlSourceRef, pointsSourceRef, measureSourceRef,
             interactions, sketchRef, pointerMoveListenerRef, pointerListeners,
             currentMeasureUnitRef, measureTooltipElementRef, activeMeasurementsRef,
             renderListeners>>
hostVars == <<exportData, step, activeTool, zipBlob, selectedScale, measureUnit,
              pointCounter, timers, packaging, pendingFiles, pendingLocate>>
historyVars == <<lastTool, lastCall, lastDispatch, lastInput, delivered>>
popupVars == <<popupContent, lookups>>
vars == <<mapVars, hostVars, popupVars, historyVars>>

sourceVars == <<sourceRef, kmlSourceRef, pointsSourceRef, measureSourceRef>>
measureVars == <<sketchRef, pointerMoveListenerRef, pointerListeners,
                 currentMeasureUnitRef, measureTooltipElementRef, activeMeasurementsRef>>
selectionVars == <<exportData, step, activeTool>>
asyncVars == <<timers, packaging, pendingFiles, pendingLocate>>

\* -------------------------------------------------------------- inputs
SelectionTools == {"Rectangle", "Polygon"}
MeasureTools == {"MeasureLength", "MeasureArea"}
HostTools == SelectionTools \cup MeasureTools \cup {"Pan"}
LENGTH_UNITS == {"m", "km", "ft", "mi"}
AREA_UNITS == {"sqm", "ha", "sqkm", "ac"}
\* the units the model's user picks
Units == {"km"}
\* the scale denominators the model's user picks (MAP_SCALES and EXPORT_SCALES)
Scales == {5000}
\* geometries the model's user draws: at 1:5000 on the equator the first is
\* 16384 pixels wide, the second 16385
DrawnExtents == {<<0, 0, 21674, 1000>>, <<0, 0, 21675, 1000>>}
\* the content of the files the model's user imports
ImportedFeatureLists ==
    {<<>>, <<Feature("Polygon", <<0, 0, 21674, 1000>>, "")>>}
\* sketches the model's user measures
MeasuredExtents == {<<100, 100, 300, 200>>}
\* positions (rendering plane) of the points the model's user adds
PointPositions == {<<500, 500>>}

\* what popupContent and the overlay's position show when it is not a point: the
\* state is null, the content is the AREA popup of a selection, or the overlay
\* was closed by setPosition(undefined)
NoPointPopup == [type |-> "none"]

\* ----------------------------------------------------------------- Init
DefaultInteraction(k) == [kind |-> k, tool |-> "", sketching |-> FALSE]
DrawInteraction(t) == [kind |-> "Draw", tool |-> t, sketching |-> FALSE]

\* new View({center: fromLonLat([-7.5898, 33.5731]), zoom: 6}) in a 1024 x 768 element
InitialView ==
    [size |-> <<1024, 768>>, resolution |-> ZoomResolution(6),
     center |-> <<-844893, 3972700>>]

NoCall ==
    [scale |-> 0, extent |-> <<>>, exportRes |-> 0, widthPx |-> 0, heightPx |-> 0,
     outcome |-> "none", alerts |-> <<>>]

\* lastCall and lastDispatch describe the step just taken: every step that is not
\* a getMapCanvas call or a render-complete dispatch clears them
NoExportEvent == lastCall' = NoCall /\ lastDispatch' = <<>>

\* lastInput and delivered describe the step just taken in the same way
NoInputEvent == [kind |-> "none", extent |-> <<>>]
InputEvent(k, e) == [kind |-> k, extent |-> e]
\* a reset, with what the four collections and the record list held before it
ResetEvent ==
    [kind |-> "reset", extent |-> <<>>,
     cleared |-> <<Len(sourceRef), Len(kmlSourceRef), Len(pointsSourceRef),
                   Len(measureSourceRef), Len(activeMeasurementsRef)>>]
NoInput == lastInput' = NoInputEvent /\ delivered' = <<>>

\* the state after construction, history aside
InitState ==
    /\ view = InitialView
    /\ sourceRef = <<>>
    /\ kmlSourceRef = <<>>
    /\ pointsSourceRef = <<>>
    /\ measureSourceRef = <<>>
    /\ interactions = <<DefaultInteraction("DragPan"), DefaultInteraction("MouseWheelZoom")>>
    /\ sketchRef = "null"
    /\ pointerMoveListenerRef = 0
    /\ pointerListeners = {}
    /\ currentMeasureUnitRef = "m"
    /\ measureTooltipElementRef = NoText
    /\ activeMeasurementsRef = <<>>
    /\ renderListeners = <<>>
    /\ exportData = <<>>
    /\ step = "IDLE"
    /\ activeTool = "null"
    /\ zipBlob = "null"
    /\ selectedScale = 1000
    /\ measureUnit = "m"
    /\ pointCounter = 1
    /\ timers = <<>>
    /\ packaging = 0
    /\ pendingFiles = {}
    /\ pendingLocate = 0
    /\ popupContent = NoPointPopup
    /\ lookups = {}
    /\ lastTool = "none"
    /\ lastCall = NoCall
    /\ lastDispatch = <<>>
    /\ delivered = <<>>

Init == InitState /\ lastInput = NoInputEvent

\* ------------------------------------------------- geoService as functions
\* A call of a geoService function with its arguments, and the call returned.
GeoCall(fn, args) ==
    [kind |-> "call", extent |-> <<>>, fn |-> fn, args |-> args, result |-> <<>>]
GeoReturn(call, result) == [call EXCEPT !.kind = "return", !.result = result]

\* a zone identifier proj4 has no definition for
UnknownZone == "EPSG:9999"
\* arguments in degrees (1e-4): the bounds of the geodetic range, both sides
GeodeticXs == {-1800001, -1800000, 0, 500000, 1800000, 1800001, NaN}
GeodeticYs == {-900001, -900000, 0, 300000, 900000, 900001, NaN}
\* scale denominators in tenths: 0.4, 1, 2500.4, 2500.7, 5000
ScaleValues == {4, 10, 25004, 25007, 50000}
\* latitudes in degrees, one for every row of the cosine table and a southern one
ScaleLatitudes == {-33, 0, 33, 60}

ProjectCalls ==
    {GeoCall("projectFromZone", <<x, y, GeodeticZone>>) :
        x \in GeodeticXs, y \in GeodeticYs}
    \cup {GeoCall("projectFromZone", <<c[1], c[2], c[3]>>) :
             c \in (SampleXs \cup {NaN}) \X (SampleYs \cup {NaN})
                   \X (RegionalZones \cup {UnknownZone})}
ScaleCalls ==
    {GeoCall("calculateScale", <<s, lat>>) : s \in ScaleValues, lat \in ScaleLatitudes}

InitGeo == InitState /\ lastInput \in ProjectCalls \cup ScaleCalls

ProjectFromZone ==
    /\ lastInput.kind = "call" /\ lastInput.fn = "projectFromZone"
    /\ lastInput' = GeoReturn(lastInput, projectFromZone(lastInput.args[1], lastInput.args[2],
                                                          lastInput.args[3]))
    /\ UNCHANGED <<mapVars, hostVars, popupVars, lastTool, lastCall, lastDispatch, delivered>>

\* calculateScale(getResolutionFromScale(s, lat), lat)
CalculateScale ==
    /\ lastInput.kind = "call" /\ lastInput.fn = "calculateScale"
    /\ lastInput' = GeoReturn(lastInput,
                              calculateScale(getResolutionFromScale(lastInput.args[1],
                                                                    lastInput.args[2]),
                                             lastInput.args[2]))
    /\ UNCHANGED <<mapVars, hostVars, popupVars, lastTool, lastCall, lastDispatch, delivered>>

NextGeo == ProjectFromZone \/ CalculateScale

\* ------------------------------------------- MapComponent: drawing tools
RemoveAt(seq, i) == SubSeq(seq, 1, i - 1) \o SubSeq(seq, i + 1, Len(seq))

RECURSIVE RemoveDrawLoop(_, _, _)
\* getInteractions().forEach(i => { if (i instanceof Draw) removeInteraction(i) }):
\* ol Collection.forEach walks the live array up to the length it had at the start
RemoveDrawLoop(arr, i, n) ==
    IF i > n THEN arr
    ELSE IF i <= Len(arr) /\ arr[i].kind = "Draw"
         THEN RemoveDrawLoop(RemoveAt(arr, i), i + 1, n)
         ELSE RemoveDrawLoop(arr, i + 1, n)

\* a tool setter that attaches its interaction without detaching the previous one
KeepDrawInteractions(arr) == arr

RemoveDrawInteractions(arr) == RemoveDrawLoop(arr, 1, Len(arr))

\* unByKey(pointerMoveListenerRef.current), guarded by the ref being set
UnByKey(listeners, key) == IF key # 0 THEN listeners \ {key} ELSE listeners

DrawIndexes == {i \in DOMAIN interactions : interactions[i].kind = "Draw"}
AttachedDraws == SelectSeq(interactions, LAMBDA x : x.kind = "Draw")

\* setDrawTool(type), type in {"null", "Rectangle", "Polygon", "Point"}.
\* Assigns pointerListeners, interactions, lastTool and closes the popup.
setDrawTool(type) ==
    /\ pointerListeners' = UnByKey(pointerListeners, pointerMoveListenerRef)
    /\ popupContent' = NoPointPopup
    /\ interactions' =
          IF type = "null" THEN RemoveDrawInteractions(interactions)
          ELSE Append(RemoveDrawInteractions(interactions), DrawInteraction(type))
    /\ lastTool' = type

\* setMeasureTool(type, unit).  Assigns currentMeasureUnitRef, measureTooltipElementRef
\* (createMeasureTooltip makes a new, empty element), interactions, lastTool;
\* it leaves sketchRef and the pointermove subscription of an aborted sketch alone.
setMeasureTool(type, unit) ==
    /\ currentMeasureUnitRef' = unit
    /\ measureTooltipElementRef' = NoText
    /\ interactions' = Append(RemoveDrawInteractions(interactions), DrawInteraction(type))
    /\ lastTool' = type

\* the text updateMeasureUnit writes into the overlay element of a record
RecordText(item, unit) ==
    IF item.type = "Area" /\ item.feature.geom = "Polygon"
    THEN formatAreaMetric(item.feature, unit)
    ELSE IF item.type = "Length" /\ item.feature.geom = "LineString"
         THEN formatLength(item.feature, unit)
         ELSE NoText

\* a unit change that leaves the overlays of the finished measurements as they are
updateMeasureUnitKeepsText(unit) ==
    /\ currentMeasureUnitRef' = unit
    /\ activeMeasurementsRef' = activeMeasurementsRef

\* updateMeasureUnit(unit).  Assigns currentMeasureUnitRef and the innerHTML of the
\* overlay element of every record; the records keep their feature and type.
updateMeasureUnit(unit) ==
    /\ currentMeasureUnitRef' = unit
    /\ activeMeasurementsRef' =
          [k \in DOMAIN activeMeasurementsRef |->
              [activeMeasurementsRef[k] EXCEPT
                  !.overlay = RecordText(activeMeasurementsRef[k], unit)]]

\* a clearAll that leaves the measurements on the map
clearAllKeepsMeasurements ==
    /\ sourceRef' = <<>>
    /\ kmlSourceRef' = <<>>
    /\ pointsSourceRef' = <<>>
    /\ popupContent' = NoPointPopup
    /\ UNCHANGED <<measureSourceRef, activeMeasurementsRef>>

\* clearAll().  Assigns the four collections and activeMeasurementsRef and closes
\* the popup.
clearAll ==
    /\ sourceRef' = <<>>
    /\ kmlSourceRef' = <<>>
    /\ pointsSourceRef' = <<>>
    /\ measureSourceRef' = <<>>
    /\ activeMeasurementsRef' = <<>>
    /\ popupContent' = NoPointPopup

\* ------------------------------------------------ App: selection callback
SelectionData(extent) ==
    [bounds |-> extent, lat |-> convertToWGS84Lat(ExtentCenter(extent))]

\* onSelectionComplete prop of <MapComponent> (App.tsx 747-752)
onSelectionComplete(data) ==
    /\ delivered' = <<data>>
    /\ exportData' = <<data>>
    /\ step' = "SELECTED"
    /\ activeTool' = "null"

\* ---------------------------------------------- user gestures on the map
SetSketching(i, b) == [interactions EXCEPT ![i].sketching = b]

\* a drawstart handler that leaves the previous selection in place
drawstartKeepsSelection(type) ==
    /\ kmlSourceRef' = IF type # "Point" THEN <<>> ELSE kmlSourceRef
    /\ popupContent' = NoPointPopup
    /\ UNCHANGED sourceRef

\* draw.on('drawstart', ...) of setDrawTool(type).  Assigns sourceRef, kmlSourceRef
\* and closes the popup.
drawstart(type) ==
    /\ IF type # "Point"
       THEN sourceRef' = <<>> /\ kmlSourceRef' = <<>>
       ELSE UNCHANGED <<sourceRef, kmlSourceRef>>
    /\ popupContent' = NoPointPopup

\* first click with a Rectangle / Polygon draw attached
SelectionDrawStart ==
    \E i \in DrawIndexes :
        /\ interactions[i].tool \in SelectionTools
        /\ ~interactions[i].sketching
        /\ drawstart(interactions[i].tool)
        /\ interactions' = SetSketching(i, TRUE)
        /\ UNCHANGED <<view, pointsSourceRef, measureSourceRef, measureVars, renderListeners,
                       hostVars, lastTool>>
        /\ NoExportEvent
        /\ UNCHANGED lookups
        /\ NoInput

\* the sketch is finished: the drawend handler, then Draw adds the feature to its source
SelectionDrawEnd ==
    \E i \in DrawIndexes, e \in DrawnExtents :
        /\ interactions[i].tool \in SelectionTools
        /\ interactions[i].sketching
        /\ onSelectionComplete(SelectionData(e))
        /\ sourceRef' = Append(sourceRef, Feature("Polygon", e, ""))
        /\ interactions' = SetSketching(i, FALSE)
        /\ UNCHANGED <<view, kmlSourceRef, pointsSourceRef, measureSourceRef, measureVars,
                       renderListeners, zipBlob, selectedScale, measureUnit, pointCounter,
                       asyncVars, lastTool>>
        /\ NoExportEvent
        /\ popupContent' = NoPointPopup
        /\ UNCHANGED lookups
        /\ lastInput' = InputEvent("draw", e)

FreshKey == CHOOSE k \in 1..(MaxListeners + 1) : k \notin pointerListeners

\* first click with a measurement draw attached: the drawstart handler subscribes
\* a pointermove listener and keeps its key
MeasureDrawStart ==
    \E i \in DrawIndexes :
        /\ interactions[i].tool \in MeasureTools
        /\ ~interactions[i].sketching
        /\ Cardinality(pointerListeners) < MaxListeners
        /\ Len(measureSourceRef) < MaxMeasures
        /\ sketchRef' = (IF interactions[i].tool = "MeasureLength"
                         THEN "LineString" ELSE "Polygon")
        /\ pointerMoveListenerRef' = FreshKey
        /\ pointerListeners' = pointerListeners \cup {FreshKey}
        /\ interactions' = SetSketching(i, TRUE)
        /\ UNCHANGED <<view, sourceVars, currentMeasureUnitRef, measureTooltipElementRef,
                       activeMeasurementsRef, renderListeners, hostVars, lastTool>>
        /\ NoExportEvent
        /\ UNCHANGED popupVars
        /\ NoInput

\* a pointermove event reaches a subscribed listener while sketchRef is set: the
\* live readout of the sketch, whose geometry so far has extent e
measurePointerMove(e) ==
    /\ pointerListeners # {}
    /\ sketchRef # "null"
    /\ measureTooltipElementRef' =
          IF sketchRef = "Polygon"
          THEN formatAreaMetric(Feature(sketchRef, e, ""), currentMeasureUnitRef)
          ELSE formatLength(Feature(sketchRef, e, ""), currentMeasureUnitRef)
    /\ UNCHANGED <<view, sourceVars, interactions, sketchRef, pointerMoveListenerRef,
                   pointerListeners, currentMeasureUnitRef, activeMeasurementsRef,
                   renderListeners, hostVars, lastTool>>
    /\ NoExportEvent
    /\ UNCHANGED popupVars
    /\ NoInput

MeasurePointerMove == \E e \in MeasuredExtents : measurePointerMove(e)

\* a drawend handler that records every measurement as a Length
MeasureDrawEndRecordsLength ==
    \E i \in DrawIndexes, e \in MeasuredExtents :
        /\ interactions[i].tool \in MeasureTools
        /\ interactions[i].sketching
        /\ LET f == Feature(sketchRef, e, "")
           IN /\ activeMeasurementsRef' =
                    IF sketchRef # "null"
                    THEN Append(activeMeasurementsRef,
                                [feature |-> f,
                                 overlay |-> measureTooltipElementRef,
                                 type |-> "Length"])
                    ELSE activeMeasurementsRef
              /\ measureSourceRef' = Append(measureSourceRef, f)
        /\ sketchRef' = "null"
        /\ measureTooltipElementRef' = NoText
        /\ pointerListeners' = UnByKey(pointerListeners, pointerMoveListenerRef)
        /\ interactions' = SetSketching(i, FALSE)
        /\ UNCHANGED <<view, sourceRef, kmlSourceRef, pointsSourceRef,
                       pointerMoveListenerRef, currentMeasureUnitRef, renderListeners,
                       hostVars, lastTool>>
        /\ NoExportEvent
        /\ UNCHANGED popupVars
        /\ NoInput

\* the measured sketch is finished: the drawend handler, then Draw adds the feature
MeasureDrawEnd ==
    \E i \in DrawIndexes, e \in MeasuredExtents :
        /\ interactions[i].tool \in MeasureTools
        /\ interactions[i].sketching
        /\ LET f == Feature(sketchRef, e, "")
           IN /\ activeMeasurementsRef' =
                    IF sketchRef # "null"
                    THEN Append(activeMeasurementsRef,
                                [feature |-> f,
                                 overlay |-> measureTooltipElementRef,
                                 type |-> IF interactions[i].tool = "MeasureLength"
                                          THEN "Length" ELSE "Area"])
                    ELSE activeMeasurementsRef
              /\ measureSourceRef' = Append(measureSourceRef, f)
        /\ sketchRef' = "null"
        /\ measureTooltipElementRef' = NoText
        /\ pointerListeners' = UnByKey(pointerListeners, pointerMoveListenerRef)
        /\ interactions' = SetSketching(i, FALSE)
        /\ UNCHANGED <<view, sourceRef, kmlSourceRef, pointsSourceRef,
                       pointerMoveListenerRef, currentMeasureUnitRef, renderListeners,
                       hostVars, lastTool>>
        /\ NoExportEvent
        /\ UNCHANGED popupVars
        /\ NoInput

\* ------------------------------------------------------- App: tool bar
\* a toggleTool that discards exportData and zipBlob and leaves the step as it is
toggleToolKeepsStep(tool) ==
    LET newTool == IF activeTool = tool THEN "null" ELSE tool
    IN /\ activeTool' = newTool
       /\ measureUnit' =
             IF newTool = "MeasureLength" /\ measureUnit \notin LENGTH_UNITS THEN "m"
             ELSE IF newTool = "MeasureArea" /\ measureUnit \notin AREA_UNITS THEN "sqm"
             ELSE measureUnit
       /\ IF newTool \in MeasureTools
          THEN /\ setMeasureTool(newTool, measureUnit)
               /\ UNCHANGED <<pointerListeners, popupContent>>
          ELSE /\ setDrawTool(IF newTool = "Pan" THEN "null" ELSE newTool)
               /\ UNCHANGED <<currentMeasureUnitRef, measureTooltipElementRef>>
       /\ IF newTool \in SelectionTools
          THEN exportData' = <<>> /\ zipBlob' = "null" /\ UNCHANGED step
          ELSE UNCHANGED <<step, exportData, zipBlob>>
       /\ UNCHANGED <<view, sourceVars, sketchRef, pointerMoveListenerRef,
                      activeMeasurementsRef, renderListeners, selectedScale, pointCounter,
                      asyncVars>>
       /\ NoExportEvent
       /\ UNCHANGED lookups
       /\ NoInput

\* toggleTool(tool): setMeasureTool receives the measureUnit of the current render,
\* not the default just queued by setMeasureUnit
toggleTool(tool) ==
    LET newTool == IF activeTool = tool THEN "null" ELSE tool
    IN /\ activeTool' = newTool
       /\ measureUnit' =
             IF newTool = "MeasureLength" /\ measureUnit \notin LENGTH_UNITS THEN "m"
             ELSE IF newTool = "MeasureArea" /\ measureUnit \notin AREA_UNITS THEN "sqm"
             ELSE measureUnit
       /\ IF newTool \in MeasureTools
          THEN /\ setMeasureTool(newTool, measureUnit)
               /\ UNCHANGED <<pointerListeners, popupContent>>
          ELSE /\ setDrawTool(IF newTool = "Pan" THEN "null" ELSE newTool)
               /\ UNCHANGED <<currentMeasureUnitRef, measureTooltipElementRef>>
       /\ IF newTool \in SelectionTools
          THEN step' = "IDLE" /\ exportData' = <<>> /\ zipBlob' = "null"
          ELSE UNCHANGED <<step, exportData, zipBlob>>
       /\ UNCHANGED <<view, sourceVars, sketchRef, pointerMoveListenerRef,
                      activeMeasurementsRef, renderListeners, selectedScale, pointCounter,
                      asyncVars>>
       /\ NoExportEvent
       /\ UNCHANGED lookups
       /\ NoInput

ToggleTool == \E tool \in HostTools : toggleTool(tool)
ToggleRectangle == toggleTool("Rectangle")
ToggleMeasureLength == toggleTool("MeasureLength")
ToggleMeasure == \E tool \in MeasureTools : toggleTool(tool)

\* a unit change that re-attaches the tool with the unit of the current render
handleUnitChangeStaleUnit(unit) ==
    /\ measureUnit' = unit
    /\ activeMeasurementsRef' =
          [k \in DOMAIN activeMeasurementsRef |->
              [activeMeasurementsRef[k] EXCEPT
                  !.overlay = RecordText(activeMeasurementsRef[k], unit)]]
    /\ IF activeTool \in MeasureTools
       THEN setMeasureTool(activeTool, measureUnit)
       ELSE /\ currentMeasureUnitRef' = unit
            /\ UNCHANGED <<interactions, lastTool, measureTooltipElementRef>>
    /\ UNCHANGED <<view, sourceVars, sketchRef, pointerMoveListenerRef, pointerListeners,
                   renderListeners, exportData, step, activeTool, zipBlob, selectedScale,
                   pointCounter, asyncVars>>
    /\ NoExportEvent
    /\ UNCHANGED popupVars
    /\ lastInput' = InputEvent("unit", <<>>)
    /\ delivered' = <<>>

handleUnitChange(unit) ==
    /\ measureUnit' = unit
    /\ updateMeasureUnit(unit)
    /\ IF activeTool \in MeasureTools
       THEN setMeasureTool(activeTool, unit)
       ELSE UNCHANGED <<interactions, lastTool, measureTooltipElementRef>>
    /\ UNCHANGED <<view, sourceVars, sketchRef, pointerMoveListenerRef, pointerListeners,
                   renderListeners, exportData, step, activeTool, zipBlob, selectedScale,
                   pointCounter, asyncVars>>
    /\ NoExportEvent
    /\ UNCHANGED popupVars
    /\ lastInput' = InputEvent("unit", <<>>)
    /\ delivered' = <<>>

HandleUnitChange == \E unit \in Units : handleUnitChange(unit)

\* ------------------------------------------------ MapComponent: the view
\* setMapScale(scale, centerOnSelection): view.setCenter, then view.animate taken
\* at its end state
setMapScale(scale, centerOnSelection) ==
    LET extent == IF Len(sourceRef) > 0 THEN ExtentOf(sourceRef)
                  ELSE IF Len(kmlSourceRef) > 0 THEN ExtentOf(kmlSourceRef)
                  ELSE EmptyExtent
        center == IF centerOnSelection /\ extent # EmptyExtent
                  THEN ExtentCenter(extent) ELSE view.center
    IN view' = [view EXCEPT !.resolution = ResolutionAtCenter(scale, center),
                            !.center = center]

\* getView().fit(extent, {padding: [p, p, p, p]}) taken at its end state
FitView(extent, p) ==
    [view EXCEPT !.resolution = FitResolution(extent, view.size, p),
                 !.center = ExtentCenter(extent)]

\* ------------------------------------------- MapComponent: getMapCanvas
\* an extent choice that prefers the imported collection to the selection
ExportExtentImportedFirst ==
    IF Len(kmlSourceRef) > 0 THEN ExtentOf(kmlSourceRef)
    ELSE IF Len(sourceRef) > 0 THEN ExtentOf(sourceRef)
    ELSE ExtentOf(pointsSourceRef)

\* const extent = sourceRef ... ? ... : (kmlSourceRef ... ? ... : pointsSourceRef ...)
ExportExtent ==
    IF Len(sourceRef) > 0 THEN ExtentOf(sourceRef)
    ELSE IF Len(kmlSourceRef) > 0 THEN ExtentOf(kmlSourceRef)
    ELSE ExtentOf(pointsSourceRef)

\* What one call computes before it touches the view (lines 632-645)
ExportPlan(targetScale) ==
    LET allFeatures == kmlSourceRef \o sourceRef \o pointsSourceRef \o measureSourceRef
        extent == ExportExtent
        center == ExtentCenter(extent)
        exportRes == IF targetScale # 0
                     THEN getResolutionFromScale(targetScale, convertToWGS84Lat(center))
                     ELSE IF view.resolution = NaNResolution \/ view.resolution = 0
                          THEN 10000 ELSE view.resolution
        widthPx == IF extent = EmptyExtent THEN NegInfinity
                   ELSE CeilDiv((extent[3] - extent[1]) * 10000, exportRes)
        heightPx == IF extent = EmptyExtent THEN NegInfinity
                    ELSE CeilDiv((extent[4] - extent[2]) * 10000, exportRes)
    IN [empty |-> Len(allFeatures) = 0, allFeatures |-> allFeatures, extent |-> extent,
        center |-> center, exportRes |-> exportRes, widthPx |-> widthPx,
        heightPx |-> heightPx]

\* a guard that also rejects a dimension equal to the maximum
TooLargeFromLimit(widthPx, heightPx) == widthPx >= MaxCanvasDim \/ heightPx >= MaxCanvasDim

\* if (widthPx > 16384 || heightPx > 16384) { alert(...); return null; }
TooLarge(widthPx, heightPx) == widthPx > MaxCanvasDim \/ heightPx > MaxCanvasDim

ViewOf(size, resolution, center) ==
    [size |-> size, resolution |-> resolution, center |-> center]

\* the view a call sets for its render (lines 646-648)
ExportGrid(plan) == ViewOf(<<plan.widthPx, plan.heightPx>>, plan.exportRes, plan.center)

\* a call that, finding an export already pending, keeps that export's saved view
RenderListenerSharedSave(plan) ==
    LET first == IF renderListeners # <<>> THEN renderListeners[1].closure
                 ELSE [originalSize |-> view.size, originalRes |-> view.resolution,
                       originalCenter |-> view.center]
    IN [originalSize |-> first.originalSize, originalRes |-> first.originalRes,
        originalCenter |-> first.originalCenter, widthPx |-> plan.widthPx,
        heightPx |-> plan.heightPx, exportRes |-> plan.exportRes, extent |-> plan.extent,
        allFeatures |-> plan.allFeatures]

\* the closure of map.once('rendercomplete', ...) (lines 636-639, 650)
RenderListener(plan) ==
    [originalSize |-> view.size, originalRes |-> view.resolution,
     originalCenter |-> view.center, widthPx |-> plan.widthPx,
     heightPx |-> plan.heightPx, exportRes |-> plan.exportRes, extent |-> plan.extent,
     allFeatures |-> plan.allFeatures]

\* a restore that puts back the resolution and the centre but not the pixel size
RestoreViewKeepsSize(l) == ViewOf(<<l.widthPx, l.heightPx>>, l.originalRes, l.originalCenter)

\* map.setSize(originalSize); view.setResolution(originalRes); view.setCenter(originalCenter)
RestoreView(l) == ViewOf(l.originalSize, l.originalRes, l.originalCenter)

\* An entry of renderListeners: the closure, and as history the view at the moment
\* of the call and whether a later getMapCanvas call was made while it was pending.
Pending(plan) == [closure |-> RenderListener(plan), before |-> view, overlapped |-> FALSE]
MarkOverlapped(ls) == [i \in DOMAIN ls |-> [ls[i] EXCEPT !.overlapped = TRUE]]

\* One render-complete listener: without a 2d context it resolves null and
\* returns at line 655; otherwise it composites, restores the view and resolves.
ListenerView(v, l, contextOk) == IF contextOk THEN RestoreView(l) ELSE v

RECURSIVE DispatchView(_, _, _, _)
\* the view after the listeners i .. Len(ls) have run, in subscription order
DispatchView(v, ls, ok, i) ==
    IF i > Len(ls) THEN v
    ELSE DispatchView(ListenerView(v, ls[i].closure, ok[i]), ls, ok, i + 1)

\* The path a feature leaves as the context's current path (lines 657-710): every
\* LineString, Polygon and Point begins a new path and traces its own outline.
PathOf(f) == [geom |-> f.geom, ext |-> f.ext]
NoPath == [geom |-> "none", ext |-> <<>>]
Unclipped == [geom |-> "unclipped", ext |-> <<>>]

\* the current path after allFeatures.forEach (kml, selection, points, measurements)
CurrentPath(allFeatures) ==
    IF allFeatures = <<>> THEN NoPath ELSE PathOf(allFeatures[Len(allFeatures)])

\* if (sourceRef.current.getFeatures().length > 0) mapContext.clip(): the region is
\* the current path, and sourceRef is read when the listener runs
ClipRegion(l, selection) ==
    IF Len(selection) > 0 THEN CurrentPath(l.allFeatures) ELSE Unclipped

\* proj4lib('EPSG:3857', 'EPSG:4326', c) in 1e-9 degree: 180 / (PI * 6378137) =
\* 8983e-9 degree per metre, for the longitude and, within some hundred
\* kilometres of the equator where the exports of the model lie, the latitude
toLonLatE9(c) == <<c[1] * 8983, c[2] * 8983>>

\* a world file whose origin is the lower-left corner of the extent
WorldFileLowerLeft(canvas, extent) ==
    LET minCorner == toLonLatE9(<<extent[1], extent[2]>>)
        maxCorner == toLonLatE9(<<extent[3], extent[4]>>)
    IN <<RoundDiv(maxCorner[1] - minCorner[1], canvas[1]), 0, 0,
         -RoundDiv(maxCorner[2] - minCorner[2], canvas[2]), minCorner[1], minCorner[2]>>

\* the lines of the .tfw (App.tsx 321-331), each a number of 1e-9 degree
WorldFile(canvas, extent) ==
    LET minCorner == toLonLatE9(<<extent[1], extent[2]>>)
        maxCorner == toLonLatE9(<<extent[3], extent[4]>>)
        pixelWidthX == RoundDiv(maxCorner[1] - minCorner[1], canvas[1])
        pixelHeightY == RoundDiv(maxCorner[2] - minCorner[2], canvas[2])
    IN <<pixelWidthX, 0, 0, -pixelHeightY, minCorner[1], maxCorner[2]>>

\* ctx.getImageData(0, 0, canvas.width, canvas.height) throws IndexSizeError on a
\* bitmap without columns or rows; the catch of startClipping sets step IDLE
Encodable(l) == l.widthPx > 0 /\ l.heightPx > 0

\* history of one resolved call: what it resolved with, the view before the call,
\* the view it set for its render, the bitmap, its clip region, the extent and
\* the world file startClipping writes for it (<<>> when it writes none)
DispatchResult(e, contextOk) ==
    [outcome |-> IF contextOk THEN "artifact" ELSE "noContext",
     original |-> e.before,
     grid |-> ViewOf(<<e.closure.widthPx, e.closure.heightPx>>, e.closure.exportRes,
                     ExtentCenter(e.closure.extent)),
     overlapped |-> e.overlapped,
     canvas |-> <<e.closure.widthPx, e.closure.heightPx>>,
     clip |-> ClipRegion(e.closure, sourceRef),
     extent |-> e.closure.extent,
     tfw |-> IF contextOk /\ Encodable(e.closure)
             THEN WorldFile(<<e.closure.widthPx, e.closure.heightPx>>, e.closure.extent)
             ELSE <<>>]

\* ------------------------------------------------------- App: the export
\* startClipping: the button is rendered when step = SELECTED and exportData is set
StartClipping ==
    /\ step = "SELECTED"
    /\ exportData # <<>>
    /\ Len(timers) + Len(renderListeners) + packaging < MaxInFlight
    /\ step' = "PROCESSING"
    /\ timers' = Append(timers, [scale |-> selectedScale])
    /\ UNCHANGED <<mapVars, exportData, activeTool, zipBlob, selectedScale, measureUnit,
                   pointCounter, packaging, pendingFiles, pendingLocate, lastTool>>
    /\ NoExportEvent
    /\ UNCHANGED popupVars
    /\ NoInput

\* the messages shown by alert() in the turn of a call: getMapCanvas at the size
\* limit (line 645), then the catch of startClipping for every null result
CallAlerts(outcome) ==
    CASE outcome = "sizeLimit" -> <<"La zone est trop grande.", "Erreur lors du traitement.">>
      [] outcome = "noData" -> <<"Erreur lors du traitement.">>
      [] OTHER -> <<>>

\* the setTimeout callback: await getMapCanvas(selectedScale).  A null result is
\* thrown as "Empty Canvas" and caught (step IDLE) in the same turn.
ExportTimer ==
    /\ timers # <<>>
    /\ LET plan == ExportPlan(Head(timers).scale)
           call(o) == [scale |-> Head(timers).scale, extent |-> plan.extent,
                       exportRes |-> plan.exportRes, widthPx |-> plan.widthPx,
                       heightPx |-> plan.heightPx, outcome |-> o,
                       alerts |-> CallAlerts(o)]
       IN IF plan.empty
          THEN /\ lastCall' = call("noData")
               /\ step' = "IDLE"
               /\ renderListeners' = MarkOverlapped(renderListeners)
               /\ UNCHANGED view
          ELSE IF TooLarge(plan.widthPx, plan.heightPx)
          THEN /\ lastCall' = call("sizeLimit")
               /\ step' = "IDLE"
               /\ renderListeners' = MarkOverlapped(renderListeners)
               /\ UNCHANGED view
          ELSE /\ lastCall' = call("rendering")
               /\ view' = ExportGrid(plan)
               /\ renderListeners' = Append(MarkOverlapped(renderListeners), Pending(plan))
               /\ UNCHANGED step
    /\ timers' = Tail(timers)
    /\ UNCHANGED <<sourceVars, interactions, measureVars, exportData, activeTool, zipBlob,
                   selectedScale, measureUnit, pointCounter, packaging, pendingFiles,
                   pendingLocate, lastTool>>
    /\ lastDispatch' = <<>>
    /\ UNCHANGED popupVars
    /\ NoInput

\* The map signals rendercomplete: every pending once-listener runs, in
\* subscription order; ok[i] says whether listener i obtained a 2d context.
\* The continuation of startClipping then encodes the bitmap and writes the world
\* file, or throws into its catch.
RenderComplete ==
    /\ renderListeners # <<>>
    /\ \E ok \in [1..Len(renderListeners) -> BOOLEAN] :
          /\ view' = DispatchView(view, renderListeners, ok, 1)
          /\ lastDispatch' = [i \in 1..Len(renderListeners) |->
                                 DispatchResult(renderListeners[i], ok[i])]
          /\ packaging' = packaging + Cardinality({i \in DOMAIN ok :
                                         ok[i] /\ Encodable(renderListeners[i].closure)})
          /\ step' = IF \E i \in DOMAIN ok : ~ok[i] \/ ~Encodable(renderListeners[i].closure)
                      THEN "IDLE" ELSE step
    /\ renderListeners' = <<>>
    /\ UNCHANGED <<sourceVars, interactions, measureVars, exportData, activeTool, zipBlob,
                   selectedScale, measureUnit, pointCounter, timers, pendingFiles,
                   pendingLocate, lastTool>>
    /\ lastCall' = NoCall
    /\ UNCHANGED popupVars
    /\ NoInput

\* a resolution of the zip that leaves the step as it is
ZipGeneratedKeepsStep ==
    /\ packaging > 0
    /\ packaging' = packaging - 1
    /\ zipBlob' = "blob"
    /\ UNCHANGED <<mapVars, exportData, step, activeTool, selectedScale, measureUnit,
                   pointCounter, timers, pendingFiles, pendingLocate, lastTool>>
    /\ NoExportEvent
    /\ UNCHANGED popupVars
    /\ NoInput

\* zip.generateAsync resolves: setZipBlob, setFileName, setStep('DONE')
ZipGenerated ==
    /\ packaging > 0
    /\ packaging' = packaging - 1
    /\ zipBlob' = "blob"
    /\ step' = "DONE"
    /\ UNCHANGED <<mapVars, exportData, activeTool, selectedScale, measureUnit,
                   pointCounter, timers, pendingFiles, pendingLocate, lastTool>>
    /\ NoExportEvent
    /\ UNCHANGED popupVars
    /\ NoInput

\* downloadFile: the button is rendered when step = DONE
DownloadFile ==
    /\ step = "DONE"
    /\ zipBlob # "null"
    /\ step' = "IDLE"
    /\ exportData' = <<>>
    /\ UNCHANGED <<mapVars, activeTool, zipBlob, selectedScale, measureUnit,
                   pointCounter, asyncVars, lastTool>>
    /\ NoExportEvent
    /\ UNCHANGED popupVars
    /\ NoInput

ResetAll ==
    /\ clearAll
    /\ setDrawTool("null")
    /\ exportData' = <<>>
    /\ step' = "IDLE"
    /\ activeTool' = "null"
    /\ zipBlob' = "null"
    /\ pointCounter' = 1
    /\ UNCHANGED <<view, sketchRef, pointerMoveListenerRef, currentMeasureUnitRef,
                   measureTooltipElementRef, renderListeners, selectedScale, measureUnit,
                   asyncVars>>
    /\ NoExportEvent
    /\ UNCHANGED lookups
    /\ lastInput' = ResetEvent
    /\ delivered' = <<>>

handleScaleChange(newScale) ==
    /\ selectedScale' = newScale
    /\ setMapScale(newScale, TRUE)
    /\ UNCHANGED <<sourceVars, interactions, measureVars, renderListeners, exportData, step,
                   activeTool, zipBlob, measureUnit, pointCounter, asyncVars, lastTool>>
    /\ NoExportEvent
    /\ UNCHANGED popupVars
    /\ NoInput

HandleScaleChange == \E newScale \in Scales : handleScaleChange(newScale)

\* ----------------------------------------------------- App: file imports
FileTypes == {"KML", "SHP", "DXF"}

\* handleFileUpload(e, type) for KML / SHP / DXF: the tool is reset, then the
\* loader starts a FileReader (or the KMZ unzip) and returns
handleFileUpload(type) ==
    /\ type \notin pendingFiles
    /\ Cardinality(pendingFiles) < MaxPending
    /\ activeTool' = "Pan"
    /\ setDrawTool("null")
    /\ pendingFiles' = pendingFiles \cup {type}
    /\ UNCHANGED <<view, sourceVars, sketchRef, pointerMoveListenerRef, currentMeasureUnitRef, measureTooltipElementRef,
                   activeMeasurementsRef, renderListeners, exportData, step,
                   zipBlob, selectedScale, measureUnit, pointCounter, timers, packaging,
                   pendingLocate>>
    /\ NoExportEvent
    /\ UNCHANGED lookups
    /\ NoInput

HandleFileUpload == \E type \in FileTypes : handleFileUpload(type)
HandleKmlUpload == handleFileUpload("KML")

\* processFeatures of loadKML, and the same statements of loadShapefile and loadDXF
\* (lines 332-348, 387-399, 436-448)
processFeatures(features) ==
    /\ kmlSourceRef' = features
    /\ sourceRef' = <<>>
    /\ IF Len(features) > 0
       THEN /\ view' = FitView(ExtentOf(features), 50)
            /\ onSelectionComplete(SelectionData(ExtentOf(features)))
       ELSE delivered' = <<>> /\ UNCHANGED <<view, selectionVars>>

\* reader.onload of a KML / SHP / DXF import
fileLoaded(type, features) ==
        /\ type \in pendingFiles
        /\ processFeatures(features)
        /\ pendingFiles' = pendingFiles \ {type}
        /\ UNCHANGED <<pointsSourceRef, measureSourceRef, interactions, measureVars,
                       renderListeners, zipBlob, selectedScale, measureUnit, pointCounter,
                       timers, packaging, pendingLocate, lastTool>>
        /\ NoExportEvent
        /\ UNCHANGED popupVars
        /\ lastInput' = IF Len(features) > 0
                        THEN InputEvent("import", ExtentOf(features))
                        ELSE NoInputEvent

FileLoaded ==
    \E type \in FileTypes, features \in ImportedFeatureLists : fileLoaded(type, features)

\* files whose only feature has no area: a point placemark, a line along a parallel
FlatFeatureLists ==
    {<<Feature("Point", <<500, 500, 500, 500>>, "")>>,
     <<Feature("LineString", <<0, 0, 1000, 0>>, "")>>}

FlatFileLoaded ==
    \E type \in FileTypes, features \in ImportedFeatureLists \cup FlatFeatureLists :
        fileLoaded(type, features)

\* the zone of the select when the application starts
DefaultZone == "EPSG:26191"
\* the zones the model's user selects for an import
ImportZones == {GeodeticZone, DefaultZone}

\* ------------------------------------------------ MapComponent: loadDXF
\* transform(x, y) of loadDXF: a rendering-plane coordinate or Null
transform(x, y, zoneCode) ==
    LET ll == projectFromZone(x, y, zoneCode)
    IN IF ll # Null THEN fromLonLat(ll)
       ELSE IF zoneCode = GeodeticZone THEN fromLonLat(<<x, y>>)
       ELSE Null

RECURSIVE CoordsExtent(_)
\* the bounding extent of the coordinates of a LineString
CoordsExtent(coords) ==
    LET c == Head(coords)
    IN IF Len(coords) = 1 THEN <<c[1], c[2], c[1], c[2]>>
       ELSE LET r == CoordsExtent(Tail(coords))
            IN <<Min(c[1], r[1]), Min(c[2], r[2]), Max(c[1], r[3]), Max(c[2], r[4])>>

\* new Feature(new LineString(coords)); the feature keeps its coordinates
LineFeature(coords) ==
    [geom |-> "LineString", ext |-> CoordsExtent(coords), label |-> "", coords |-> coords]

\* the features one entity of dxf.entities pushes: none or one
EntityFeatures(entity, zoneCode) ==
    LET v == entity.vertices
    IN IF entity.type = "LINE"
       THEN LET p1 == transform(v[1][1], v[1][2], zoneCode)
                p2 == transform(v[2][1], v[2][2], zoneCode)
            IN IF p1 # Null /\ p2 # Null THEN <<LineFeature(<<p1, p2>>)>> ELSE <<>>
       ELSE IF Len(v) > 1
            THEN LET mapped == [i \in 1..Len(v) |-> transform(v[i][1], v[i][2], zoneCode)]
                     coords == SelectSeq(mapped, LAMBDA c : c # Null)
                 IN IF Len(coords) > 1 THEN <<LineFeature(coords)>> ELSE <<>>
            ELSE <<>>

RECURSIVE DxfFeatures(_, _)
\* for (const entity of dxf.entities): features
DxfFeatures(entities, zoneCode) ==
    IF entities = <<>> THEN <<>>
    ELSE EntityFeatures(Head(entities), zoneCode) \o DxfFeatures(Tail(entities), zoneCode)

\* the drawing a step read, for the steps that are the onload of a DXF import
DxfEvent(e, entities, zone) ==
    [kind |-> "dxf", extent |-> e, entities |-> entities, zone |-> zone]

\* reader.onload of loadDXF(file, zoneCode) for a drawing that parses
dxfLoaded(entities, zoneCode) ==
    /\ "DXF" \in pendingFiles
    /\ processFeatures(DxfFeatures(entities, zoneCode))
    /\ pendingFiles' = pendingFiles \ {"DXF"}
    /\ UNCHANGED <<pointsSourceRef, measureSourceRef, interactions, measureVars,
                   renderListeners, zipBlob, selectedScale, measureUnit, pointCounter,
                   timers, packaging, pendingLocate, lastTool>>
    /\ NoExportEvent
    /\ UNCHANGED popupVars
    /\ lastInput' = DxfEvent(ExtentOf(kmlSourceRef'), entities, zoneCode)

Entity(type, vertices) == [type |-> type, vertices |-> vertices]
\* entities of the drawings of the import checks: a line inside both zones, a
\* line and two polylines with the vertex (-2000000, 300000), which neither
\* zone accepts, and a polyline of one vertex
DxfEntities ==
    {Entity("LINE", <<<<500000, 300000>>, <<0, 0>>>>),
     Entity("LINE", <<<<500000, 300000>>, <<-2000000, 300000>>>>),
     Entity("LWPOLYLINE", <<<<500000, 300000>>, <<-2000000, 300000>>, <<0, 0>>>>),
     Entity("LWPOLYLINE", <<<<-2000000, 300000>>, <<0, 0>>>>),
     Entity("POLYLINE", <<<<0, 0>>>>)}
DxfFiles ==
    {<<>>} \cup UNION {[1..n -> DxfEntities] : n \in 1..MaxEntities}

DxfLoaded == \E zone \in ImportZones, entities \in DxfFiles : dxfLoaded(entities, zone)
HandleDxfUpload == handleFileUpload("DXF")

\* -------------------------------------------------------- App: points
\* `pt ${pointCounter.toString().padStart(2, '0')}`
Digits == <<"0", "1", "2", "3", "4", "5", "6", "7", "8", "9">>
ManualLabel(n) == "pt " \o Digits[((n \div 10) % 10) + 1] \o Digits[(n % 10) + 1]

PointFeature(pos, label) == Feature("Point", <<pos[1], pos[2], pos[1], pos[2]>>, label)

\* addManualPoint(x, y, label): the feature is added and the view animates to it
\* at zoom 16 (taken at its end state)
addManualPoint(pos, label) ==
    /\ pointsSourceRef' = Append(pointsSourceRef, PointFeature(pos, label))
    /\ view' = [view EXCEPT !.center = pos, !.resolution = ZoomResolution(16)]

\* handleManualAddPoint with coordinates that parse and project
HandleManualAddPoint ==
    \E pos \in PointPositions :
        /\ Len(pointsSourceRef) < MaxPoints
        /\ pointCounter <= MaxPoints
        /\ addManualPoint(pos, ManualLabel(pointCounter))
        /\ pointCounter' = pointCounter + 1
        /\ UNCHANGED <<sourceRef, kmlSourceRef, measureSourceRef, interactions,
                       measureVars, renderListeners, exportData, step, activeTool,
                       zipBlob, selectedScale, measureUnit, asyncVars, lastTool>>
        /\ NoExportEvent
        /\ UNCHANGED popupVars
        /\ NoInput

\* processExcelFile with a file selected: the tool is reset and a FileReader starts
ProcessExcelFile ==
    /\ "XLS" \notin pendingFiles
    /\ Cardinality(pendingFiles) < MaxPending
    /\ activeTool' = "null"
    /\ setDrawTool("null")
    /\ pendingFiles' = pendingFiles \cup {"XLS"}
    /\ UNCHANGED <<view, sourceVars, sketchRef, pointerMoveListenerRef,
                   currentMeasureUnitRef, measureTooltipElementRef, activeMeasurementsRef, renderListeners,
                   exportData, step, zipBlob, selectedScale, measureUnit, pointCounter,
                   timers, packaging, pendingLocate>>
    /\ NoExportEvent
    /\ UNCHANGED lookups
    /\ NoInput

\* `P${index + 1}` for the points without a label
ExcelLabel(index) == "P" \o Digits[(index % 10) + 1]

\* loadExcelPoints(points), points a non-empty sequence of [x, y, label] in degrees
loadExcelPoints(points) ==
    LET features == [i \in 1..Len(points) |->
                        PointFeature(fromLonLat(<<points[i].x, points[i].y>>),
                                     IF points[i].label # "" THEN points[i].label
                                     ELSE ExcelLabel(i))]
    IN /\ popupContent' = NoPointPopup
       /\ pointsSourceRef' = features
       /\ view' = IF Len(features) = 1
                  THEN [view EXCEPT !.center = fromLonLat(<<points[1].x, points[1].y>>),
                                    !.resolution = ZoomResolution(16)]
                  ELSE FitView(ExtentOf(features), 100)

\* A cell of the sheet is a number, a text, or absent when the sheet has no column
\* of that name; sheet_to_json gives an empty cell the text ''.
NumberCell(n) == [type |-> "number", text |-> "", value |-> n]
TextCell(t) == [type |-> "string", text |-> t, value |-> 0]
AbsentCell == [type |-> "absent", text |-> "", value |-> 0]

\* parseFloat of a text with its white space removed and its first comma replaced
ParseFloat(t) ==
    CASE t = "500000" -> 500000
      [] t = "300 000" -> 300000
      [] t = "0" -> 0
      [] t = "-2000000" -> -2000000
      [] OTHER -> NaN

\* parseCoordinateValue(val)
parseCoordinateValue(cell) ==
    IF cell.type = "number" THEN cell.value
    ELSE IF cell.text = "" THEN NaN
    ELSE ParseFloat(cell.text)

Row(x, y, label) == [x |-> x, y |-> y, label |-> label]

\* an import that gives up at the first row it cannot use
RECURSIVE ValidPointsUntilBadRow(_, _)
ValidPointsUntilBadRow(rows, zone) ==
    IF rows = <<>> THEN <<>>
    ELSE LET row == Head(rows)
             rawX == parseCoordinateValue(row.x)
             rawY == parseCoordinateValue(row.y)
             wgs84 == projectFromZone(rawX, rawY, zone)
         IN IF /\ row.x.type # "absent" /\ row.y.type # "absent"
               /\ ~IsNaN(rawX) /\ ~IsNaN(rawY)
               /\ wgs84 # Null
            THEN <<[x |-> wgs84[1], y |-> wgs84[2], label |-> row.label]>>
                    \o ValidPointsUntilBadRow(Tail(rows), zone)
            ELSE <<>>

\* jsonData.forEach of reader.onload: validPoints
RECURSIVE ValidPoints(_, _)
ValidPoints(rows, zone) ==
    IF rows = <<>> THEN <<>>
    ELSE LET row == Head(rows)
             rawX == parseCoordinateValue(row.x)
             rawY == parseCoordinateValue(row.y)
             wgs84 == projectFromZone(rawX, rawY, zone)
             rest == ValidPoints(Tail(rows), zone)
         IN IF /\ row.x.type # "absent" /\ row.y.type # "absent"
               /\ ~IsNaN(rawX) /\ ~IsNaN(rawY)
               /\ wgs84 # Null
            THEN <<[x |-> wgs84[1], y |-> wgs84[2], label |-> row.label]>> \o rest
            ELSE rest

\* the sheet a step read, for the steps that are the onload of an Excel import
ExcelEvent(k, e, rows, zone) == [kind |-> k, extent |-> e, rows |-> rows, zone |-> zone]

\* reader.onload of processExcelFile for a sheet of rows, selectedZone being zone:
\* the valid rows are loaded when there is one
excelLoaded(rows, zone) ==
    LET validPoints == ValidPoints(rows, zone)
    IN /\ "XLS" \in pendingFiles
       /\ pendingFiles' = pendingFiles \ {"XLS"}
       /\ IF Len(validPoints) > 0
          THEN loadExcelPoints(validPoints)
          ELSE UNCHANGED <<view, pointsSourceRef, popupContent>>
       /\ UNCHANGED <<sourceRef, kmlSourceRef, measureSourceRef, interactions,
                      measureVars, renderListeners, exportData, step, activeTool,
                      zipBlob, selectedScale, measureUnit, pointCounter, timers,
                      packaging, pendingLocate, lastTool>>
       /\ NoExportEvent
       /\ delivered' = <<>>
       /\ UNCHANGED lookups
       /\ lastInput' = IF Len(validPoints) > 0
                       THEN ExcelEvent("excel", ExtentOf(pointsSourceRef'), rows, zone)
                       ELSE ExcelEvent("excelEmpty", <<>>, rows, zone)

\* the sheets the model's user loads: an empty one and one with a row of the zone
ExcelSheets == {<<>>, <<Row(NumberCell(500000), NumberCell(300000), "")>>}

ExcelLoaded == \E rows \in ExcelSheets : excelLoaded(rows, DefaultZone)

\* rows of the sheets of the import checks: two that project in both zones, one
\* whose labelled text parses, one outside both zones, one that does not parse and
\* one of a sheet without a Y column
SheetRows ==
    {Row(NumberCell(500000), NumberCell(300000), ""),
     Row(TextCell("0"), NumberCell(0), "B1"),
     Row(NumberCell(-2000000), NumberCell(300000), ""),
     Row(TextCell("abc"), TextCell("300 000"), ""),
     Row(NumberCell(500000), AbsentCell, "")}
RowSheets ==
    {<<>>} \cup UNION {[1..n -> SheetRows] : n \in 1..MaxRows}

ExcelLoadedRows ==
    \E zone \in ImportZones, rows \in RowSheets : excelLoaded(rows, zone)

\* ------------------------------------------- App: the manual point form
\* the most manual points the model's user adds between two resets
MaxManualPoints == 3

\* what the model's user types into the X and Y fields: two pairs that project in
\* both zones, a text that does not parse, an empty field and a pair outside
\* both zones
ManualEntries ==
    {<<"500000", "300 000">>, <<"0", "0">>, <<"abc", "300 000">>, <<"500000", "">>,
     <<"-2000000", "300 000">>}

\* a press of the add button, with the fields, the zone, the points and the
\* counter it found
ManualEvent(manualX, manualY, zone) ==
    [kind |-> "manual", extent |-> <<>>, x |-> manualX, y |-> manualY, zone |-> zone,
     points |-> pointsSourceRef, counter |-> pointCounter]

\* a handler that counts the rejected entries as well
handleManualAddPointCountsAll(manualX, manualY, zone) ==
    LET x == parseCoordinateValue(TextCell(manualX))
        y == parseCoordinateValue(TextCell(manualY))
        wgs84 == projectFromZone(x, y, zone)
    IN /\ IF manualX = "" \/ manualY = "" \/ IsNaN(x) \/ IsNaN(y) \/ wgs84 = Null
          THEN UNCHANGED <<view, pointsSourceRef>>
          ELSE addManualPoint(fromLonLat(wgs84), ManualLabel(pointCounter))
       /\ pointCounter' = pointCounter + 1
       /\ UNCHANGED <<sourceRef, kmlSourceRef, measureSourceRef, interactions,
                      measureVars, renderListeners, exportData, step, activeTool,
                      zipBlob, selectedScale, measureUnit, asyncVars, lastTool, delivered>>
       /\ NoExportEvent
       /\ UNCHANGED popupVars
       /\ lastInput' = ManualEvent(manualX, manualY, zone)

\* handleManualAddPoint with manualX and manualY in the fields and selectedZone
\* being zone: an empty field, a value that does not parse and a pair
\* projectFromZone rejects return before anything is assigned
handleManualAddPoint(manualX, manualY, zone) ==
    LET x == parseCoordinateValue(TextCell(manualX))
        y == parseCoordinateValue(TextCell(manualY))
        wgs84 == projectFromZone(x, y, zone)
    IN /\ IF manualX = "" \/ manualY = "" \/ IsNaN(x) \/ IsNaN(y) \/ wgs84 = Null
          THEN UNCHANGED <<view, pointsSourceRef, pointCounter>>
          ELSE /\ addManualPoint(fromLonLat(wgs84), ManualLabel(pointCounter))
               /\ pointCounter' = pointCounter + 1
       /\ UNCHANGED <<sourceRef, kmlSourceRef, measureSourceRef, interactions,
                      measureVars, renderListeners, exportData, step, activeTool,
                      zipBlob, selectedScale, measureUnit, asyncVars, lastTool, delivered>>
       /\ NoExportEvent
       /\ UNCHANGED popupVars
       /\ lastInput' = ManualEvent(manualX, manualY, zone)

ManualAddPoint ==
    \E entry \in ManualEntries, zone \in ImportZones :
        /\ pointCounter <= MaxManualPoints
        /\ handleManualAddPoint(entry[1], entry[2], zone)

\* locateUser(): navigator.geolocation.getCurrentPosition is asked
LocateUser ==
    /\ pendingLocate < MaxPending
    /\ pendingLocate' = pendingLocate + 1
    /\ UNCHANGED <<mapVars, exportData, step, activeTool, zipBlob, selectedScale,
                   measureUnit, pointCounter, timers, packaging, pendingFiles, lastTool>>
    /\ NoExportEvent
    /\ UNCHANGED popupVars
    /\ NoInput

\* the position callback: the view animates to the position at zoom 18 (taken at
\* its end state) and the point 'Moi' is added
positionFound(pos) ==
        /\ pendingLocate > 0
        /\ Len(pointsSourceRef) < MaxPoints
        /\ pendingLocate' = pendingLocate - 1
        /\ view' = [view EXCEPT !.center = pos, !.resolution = ZoomResolution(18)]
        /\ pointsSourceRef' = Append(pointsSourceRef, PointFeature(pos, "Moi"))
        /\ UNCHANGED <<sourceRef, kmlSourceRef, measureSourceRef, interactions,
                       measureVars, renderListeners, exportData, step, activeTool,
                       zipBlob, selectedScale, measureUnit, pointCounter, timers,
                       packaging, pendingFiles, lastTool>>
        /\ NoExportEvent
        /\ UNCHANGED popupVars
        /\ NoInput

PositionFound == \E pos \in PointPositions : positionFound(pos)

\* ---------------------------------- MapComponent: the point popup
\* the most fetchElevation calls the model leaves unanswered
MaxLookups == 2

\* positions (rendering plane) the geolocation reports
GeolocationPositions == {<<500, 500>>, <<700, 500>>}

PositionFoundAnywhere == \E pos \in GeolocationPositions : positionFound(pos)

\* z: '...' of the popup whose elevation is being fetched
Loading == [at |-> <<>>]

\* the elevation the service answers for a position
fetchElevation(pos) == [at |-> pos]

\* feature.get('label') || 'Pt'
PopupLabel(feature) == IF feature.label # "" THEN feature.label ELSE "Pt"

\* geom.getCoordinates() of a point feature
PointCoordinates(feature) == <<feature.ext[1], feature.ext[2]>>

\* the fetchElevation call of showPointPopup, with the label its closure holds
Lookup(feature) == [label |-> PopupLabel(feature), point |-> PointCoordinates(feature)]

\* showPointPopup(feature, coordinate) up to its await: the popup describes the
\* point with z '...' and is placed on it, and the elevation is asked for
showPointPopup(feature) ==
    /\ Cardinality(lookups \cup {Lookup(feature)}) <= MaxLookups
    /\ popupContent' = [type |-> "POINT", label |-> PopupLabel(feature),
                        point |-> PointCoordinates(feature), z |-> Loading]
    /\ lookups' = lookups \cup {Lookup(feature)}

\* map.on('click', ...) on a feature of the points layer
PointClick ==
    \E k \in DOMAIN pointsSourceRef :
        /\ showPointPopup(pointsSourceRef[k])
        /\ UNCHANGED <<mapVars, hostVars, lastTool, delivered>>
        /\ NoExportEvent
        /\ lastInput' = InputEvent("click", pointsSourceRef[k].ext)

\* showPointPopup after its await: the answer of a fetchElevation call, in any
\* order, is written into the popup when that is a point popup with the label of
\* the call
ElevationFetched ==
    \E r \in lookups :
        /\ lookups' = lookups \ {r}
        /\ popupContent' =
              IF popupContent.type = "POINT" /\ popupContent.label = r.label
              THEN [popupContent EXCEPT !.z = fetchElevation(r.point)]
              ELSE popupContent
        /\ UNCHANGED <<mapVars, hostVars, lastTool, delivered>>
        /\ NoExportEvent
        /\ lastInput' = [kind |-> "elevation", extent |-> <<>>, lookup |-> r]

\* ------------------------------------- MapComponent: the Point tool
\* the most points the model's user draws without a clearing in between
MaxDrawnPoints == 3

\* a count taken from the selection collection instead of the points
PointCountOfSelection == Len(sourceRef) + 1

\* const count = pointsSourceRef.current.getFeatures().length + 1
PointCount == Len(pointsSourceRef) + 1

\* `P${count}`
PointLabel(count) == "P" \o ToString(count)

\* setDrawTool('Point'), the call the component offers for its Point tool
SetPointTool ==
    /\ setDrawTool("Point")
    /\ UNCHANGED <<view, sourceVars, sketchRef, pointerMoveListenerRef, currentMeasureUnitRef,
                   measureTooltipElementRef, activeMeasurementsRef, renderListeners, hostVars>>
    /\ NoExportEvent
    /\ UNCHANGED lookups
    /\ NoInput

\* a click with the Point draw attached: drawstart leaves the collections alone,
\* the drawend handler labels the feature and shows its popup, then Draw adds it
\* to pointsSourceRef
PointDrawEnd ==
    \E i \in DrawIndexes, pos \in PointPositions :
        /\ interactions[i].tool = "Point"
        /\ Len(pointsSourceRef) < MaxDrawnPoints
        /\ pointsSourceRef' = Append(pointsSourceRef, PointFeature(pos, PointLabel(PointCount)))
        /\ showPointPopup(PointFeature(pos, PointLabel(PointCount)))
        /\ UNCHANGED <<view, sourceRef, kmlSourceRef, measureSourceRef, interactions,
                       measureVars, renderListeners, hostVars, lastTool, delivered>>
        /\ NoExportEvent
        /\ lastInput' = InputEvent("point", <<pos[1], pos[2], pos[1], pos[2]>>)

\* drawing points, with manual points and resets in between
NextPointTool ==
    \/ SetPointTool
    \/ PointDrawEnd
    \/ ElevationFetched
    \/ ToggleRectangle
    \/ SelectionDrawStart
    \/ SelectionDrawEnd
    \/ HandleManualAddPoint
    \/ ResetAll

NextTools ==
    \/ ToggleTool
    \/ HandleUnitChange
    \/ SelectionDrawStart
    \/ SelectionDrawEnd
    \/ MeasureDrawStart
    \/ MeasureDrawEnd
    \/ HandleFileUpload
    \/ FileLoaded
    \/ ResetAll

NextExport ==
    \/ ToggleRectangle
    \/ SelectionDrawStart
    \/ SelectionDrawEnd
    \/ HandleKmlUpload
    \/ FileLoaded
    \/ StartClipping
    \/ ExportTimer
    \/ RenderComplete
    \/ ZipGenerated
    \/ DownloadFile
    \/ ResetAll
    \/ HandleScaleChange

NextPoints ==
    \/ HandleManualAddPoint
    \/ ProcessExcelFile
    \/ ExcelLoaded
    \/ LocateUser
    \/ PositionFound

\* selections, imports and point inputs, without the export
NextInputs ==
    \/ ToggleRectangle
    \/ SelectionDrawStart
    \/ SelectionDrawEnd
    \/ HandleFileUpload
    \/ FileLoaded
    \/ ProcessExcelFile
    \/ ExcelLoaded
    \/ HandleManualAddPoint
    \/ LocateUser
    \/ PositionFound
    \/ ResetAll

\* the export of selections and points at the scales of the scale select
NextCanvas ==
    \/ ToggleRectangle
    \/ SelectionDrawStart
    \/ SelectionDrawEnd
    \/ HandleManualAddPoint
    \/ HandleScaleChange
    \/ StartClipping
    \/ ExportTimer
    \/ RenderComplete

\* the export of selections, imports and points at the initial scale
NextExtent ==
    \/ ToggleRectangle
    \/ SelectionDrawStart
    \/ SelectionDrawEnd
    \/ HandleKmlUpload
    \/ FileLoaded
    \/ HandleManualAddPoint
    \/ StartClipping
    \/ ExportTimer
    \/ RenderComplete

\* the export of selections and measurements
NextMeasureExport ==
    \/ ToggleRectangle
    \/ ToggleMeasureLength
    \/ SelectionDrawStart
    \/ SelectionDrawEnd
    \/ MeasureDrawStart
    \/ MeasureDrawEnd
    \/ StartClipping
    \/ ExportTimer
    \/ RenderComplete

\* measuring: the tools, the unit selector, the sketch and its live readout
NextMeasure ==
    \/ ToggleMeasure
    \/ ToggleRectangle
    \/ HandleUnitChange
    \/ MeasureDrawStart
    \/ MeasurePointerMove
    \/ MeasureDrawEnd
    \/ ResetAll

\* filling the four collections, and the reset
NextClear ==
    \/ ToggleRectangle
    \/ ToggleMeasureLength
    \/ SelectionDrawStart
    \/ SelectionDrawEnd
    \/ MeasureDrawStart
    \/ MeasureDrawEnd
    \/ HandleKmlUpload
    \/ FileLoaded
    \/ HandleManualAddPoint
    \/ ResetAll

\* the Excel import over sheets with rows that fail
NextExcel ==
    \/ ProcessExcelFile
    \/ ExcelLoadedRows

\* the DXF import over drawings with vertices that fail
NextDxf ==
    \/ HandleDxfUpload
    \/ DxfLoaded

\* exports of selections at the scales of the scale select, to their end
NextLive ==
    \/ ToggleRectangle
    \/ SelectionDrawStart
    \/ SelectionDrawEnd
    \/ HandleScaleChange
    \/ StartClipping
    \/ ExportTimer
    \/ RenderComplete
    \/ ZipGenerated

\* exports with tool activations and resets while one is in flight; nothing but
\* toggleTool and resetAll discards exportData here
NextStale ==
    \/ ToggleRectangle
    \/ SelectionDrawStart
    \/ SelectionDrawEnd
    \/ HandleScaleChange
    \/ StartClipping
    \/ ExportTimer
    \/ RenderComplete
    \/ ZipGenerated
    \/ ResetAll

\* the host workflow: every writer of step, exportData and zipBlob
NextHost == NextStale \/ DownloadFile

Next ==
    \/ NextTools \/ NextExport \/ NextPoints \/ NextMeasure \/ NextClear \/ NextExcel
    \/ NextDxf \/ NextPointTool

Spec == Init /\ [][Next]_vars
SpecTools == Init /\ [][NextTools]_vars
SpecExport == Init /\ [][NextExport]_vars
SpecInputs == Init /\ [][NextInputs]_vars
SpecCanvas == Init /\ [][NextCanvas]_vars
SpecExtent == Init /\ [][NextExtent]_vars
SpecMeasureExport == Init /\ [][NextMeasureExport]_vars
SpecMeasure == Init /\ [][NextMeasure]_vars
SpecClear == Init /\ [][NextClear]_vars
SpecExcel == Init /\ [][NextExcel]_vars
SpecDxf == Init /\ [][NextDxf]_vars
SpecPointTool == Init /\ [][NextPointTool]_vars

\* located and drawn points, their popups and the elevation answers, with resets
NextPopup ==
    \/ LocateUser
    \/ PositionFoundAnywhere
    \/ SetPointTool
    \/ PointDrawEnd
    \/ PointClick
    \/ ElevationFetched
    \/ ResetAll
SpecPopup == Init /\ [][NextPopup]_vars

\* the export of imported files, those of a single point or line included
NextFlat ==
    \/ HandleKmlUpload
    \/ FlatFileLoaded
    \/ StartClipping
    \/ ExportTimer
    \/ RenderComplete
SpecFlat == Init /\ [][NextFlat]_vars

\* the manual point form and the reset
NextManual ==
    \/ ManualAddPoint
    \/ ResetAll
SpecManual == Init /\ [][NextManual]_vars
SpecStale == Init /\ [][NextStale]_vars
SpecHost == Init /\ [][NextHost]_vars
SpecGeo == InitGeo /\ [][NextGeo]_vars

\* The callback of setTimeout runs once its second has passed, the map signals
\* rendercomplete after renderSync, and zip.generateAsync settles.
SpecLive ==
    /\ Init /\ [][NextLive]_vars
    /\ WF_vars(ExportTimer) /\ WF_vars(RenderComplete) /\ WF_vars(ZipGenerated)

\* ============================================================ properties
\* the calls resolved by the dispatch of the step just taken
Resolved(i) == lastDispatch[i]
SelectionSketching ==
    \E i \in DrawIndexes : interactions[i].tool \in SelectionTools /\ interactions[i].sketching
MeasureSketching ==
    \E i \in DrawIndexes : interactions[i].tool \in MeasureTools /\ interactions[i].sketching

\* C1: a getMapCanvas call that runs alone leaves the view (centre, resolution,
\* pixel size) as it was immediately before the call, both when it resolves with an
\* artifact and when it returns null at the size limit.
C1_LoneCallRestoresView ==
    [][/\ (Len(lastDispatch') = 1 /\ Resolved(1)'.outcome = "artifact"
              => view' = Resolved(1)'.original)
       /\ (lastCall'.outcome = "sizeLimit" /\ renderListeners = <<>>
              => view' = view)]_vars

\* a lone call has resolved with an artifact after rendering on a grid that differs
\* from the view it found, and the view is back at what it found
C1_Witness ==
    /\ Len(lastDispatch) = 1
    /\ Resolved(1).outcome = "artifact"
    /\ ~Resolved(1).overlapped
    /\ Resolved(1).grid # Resolved(1).original
    /\ view = Resolved(1).original

\* C2: when no drawing surface can be obtained after render-complete, the call
\* resolves null and the view (centre, resolution, pixel size) is as before the call.
C2_NoSurfaceRestoresView ==
    Len(lastDispatch) = 1 /\ Resolved(1).outcome = "noContext"
        => view = Resolved(1).original

\* C3: a computed width or height above 16384 makes getMapCanvas return null with
\* the view untouched and no render-complete listener registered; dimensions up to
\* and including 16384 are accepted and rendered.
C3_SizeGuard ==
    [][lastCall'.outcome # "none" =>
          /\ (lastCall'.widthPx > 16384 \/ lastCall'.heightPx > 16384
                 => /\ lastCall'.outcome = "sizeLimit"
                    /\ view' = view
                    /\ Len(renderListeners') = Len(renderListeners))
          /\ (lastCall'.outcome = "sizeLimit"
                 => lastCall'.widthPx > 16384 \/ lastCall'.heightPx > 16384)]_vars

\* a call computed a width of exactly 16384 pixels and went on to render
C3_Witness ==
    /\ lastCall.outcome = "rendering"
    /\ lastCall.widthPx = 16384
    /\ view.size = <<16384, lastCall.heightPx>>

\* C4: startClipping never calls getMapCanvas while an earlier call has not resolved.
C4_ExportsSerialized ==
    [][lastCall'.outcome # "none" => renderListeners = <<>>]_vars

\* C5 (as amended): when a second call passes its guards while the first is pending
\* and finds the view on the first call's export grid, then after both have resolved
\* the view is on that export grid if the second call obtained a drawing surface; if
\* it did not, the view is the one before the first call when the first obtained a
\* surface and is left as render-complete found it otherwise.  A second call that
\* returns at a guard leaves the first call's restore in effect.
C5_OverlappingCalls ==
    [][/\ (Len(lastDispatch') = 2 /\ Resolved(2)'.original = Resolved(1)'.grid
              => view' = IF Resolved(2)'.outcome = "artifact" THEN Resolved(1)'.grid
                         ELSE IF Resolved(1)'.outcome = "artifact"
                              THEN Resolved(1)'.original
                              ELSE view)
       /\ ((Len(lastDispatch') = 1 /\ Resolved(1)'.overlapped
               /\ Resolved(1)'.outcome = "artifact")
              => view' = Resolved(1)'.original)]_vars

\* two overlapping calls have resolved with artifacts and the view is left on the
\* first call's export grid, which is not the view before the first call
C5_Witness ==
    /\ Len(lastDispatch) = 2
    /\ Resolved(1).outcome = "artifact"
    /\ Resolved(2).outcome = "artifact"
    /\ Resolved(2).original = Resolved(1).grid
    /\ Resolved(1).grid # Resolved(1).original
    /\ view = Resolved(1).grid

\* C5 as stated: once a call whose export grid differs from the view before it, and
\* during which a second call was made, has resolved (every call resolving with an
\* artifact), the view is not the view before that first call.
C5_AsStated ==
    (/\ lastDispatch # <<>>
     /\ Resolved(1).overlapped
     /\ Resolved(1).grid # Resolved(1).original
     /\ \A i \in DOMAIN lastDispatch : Resolved(i).outcome = "artifact")
        => view # Resolved(1).original

\* C6: while an export is pending, a step that is neither a getMapCanvas call nor
\* the render-complete dispatch leaves the view (centre, resolution, pixel size) alone.
C6_ViewOwnedByExport ==
    [][renderListeners # <<>> /\ lastCall'.outcome = "none" /\ lastDispatch' = <<>>
          => view' = view]_vars

\* C7: the selection collection and the imported collection are never both non-empty.
C7_SelectionImportExclusive == ~(sourceRef # <<>> /\ kmlSourceRef # <<>>)

\* C8: at most one pointermove listener of a measurement draw is subscribed, and
\* none is subscribed unless a measurement sketch is in progress.
C8_OnePointerListener ==
    /\ Cardinality(pointerListeners) <= 1
    /\ (~MeasureSketching => pointerListeners = {})

\* C9: at most one Draw interaction is attached, and it is the one of the tool most
\* recently set by setDrawTool or setMeasureTool (none after setDrawTool(null)).
C9_OneDrawInteraction ==
    /\ Len(AttachedDraws) <= 1
    /\ (lastTool \in {"none", "null"} => AttachedDraws = <<>>)
    /\ (lastTool \notin {"none", "null"}
           => Len(AttachedDraws) = 1 /\ AttachedDraws[1].tool = lastTool)

\* a measurement was drawn with one tool, and after a later setDrawTool the only
\* Draw attached is the Polygon one
C9_Witness ==
    /\ measureSourceRef # <<>>
    /\ lastTool = "Polygon"
    /\ Len(AttachedDraws) = 1
    /\ AttachedDraws[1].tool = "Polygon"
    /\ Len(interactions) = 3

\* C10 (as amended): immediately after the first point of a Rectangle or Polygon
\* sketch is placed (the drawstart of the interaction setDrawTool attached), the
\* selection collection and the imported collection are empty.
C10_DrawStartClearsSelection ==
    [][(\E i \in DrawIndexes :
            /\ interactions[i].tool \in SelectionTools
            /\ ~interactions[i].sketching
            /\ i \in DOMAIN interactions'
            /\ interactions'[i].sketching)
          => sourceRef' = <<>> /\ kmlSourceRef' = <<>>]_vars

\* a second selection sketch has begun: the data of the previous selection is
\* still held by the host and the collections are empty
C10_Witness ==
    /\ SelectionSketching
    /\ exportData # <<>>
    /\ step = "SELECTED"
    /\ sourceRef = <<>>
    /\ kmlSourceRef = <<>>

\* C10 as stated: the step in which the host sets a selection tool (toggleTool is
\* the only caller of setDrawTool with Rectangle or Polygon, and it makes that tool
\* the active one) ends with the selection collection empty.
C10_AsStated ==
    [][activeTool' \in SelectionTools /\ activeTool' # activeTool /\ lastTool' = activeTool'
          => sourceRef' = <<>>]_vars

\* C11: every completed selection draw and every import that adds at least one
\* feature (KML/KMZ, Shapefile, DXF, Excel points) passes exactly one SelectionData
\* to the host, with bounds equal to the bounding extent of that geometry.
C11_OneResultPerInput ==
    lastInput.kind \in {"draw", "import", "excel"}
        => Len(delivered) = 1 /\ delivered[1].bounds = lastInput.extent

\* C12: a getMapCanvas call made while all four collections are empty leaves the
\* view alone and the host shows no message for it.
C12_NoDataIsSilent ==
    [][(/\ lastCall'.outcome # "none"
        /\ sourceRef = <<>> /\ kmlSourceRef = <<>>
        /\ pointsSourceRef = <<>> /\ measureSourceRef = <<>>)
          => view' = view /\ lastCall'.alerts = <<>>]_vars

C14_MeasurementsOnlyRejected ==
    [][(/\ lastCall'.outcome # "none"
        /\ sourceRef = <<>> /\ kmlSourceRef = <<>> /\ pointsSourceRef = <<>>
        /\ measureSourceRef # <<>>)
          => lastCall'.outcome \in {"noData", "sizeLimit"} /\ view' = view]_vars

\* n is the ceiling of metres / resolution, the resolution being in 1e-4 m/px
IsCeiling(n, metres, resolution) ==
    (n - 1) * resolution < metres * 10000 /\ metres * 10000 <= n * resolution

\* C15: an accepted export has width = ceil((maxX - minX) / resolution) and
\* height = ceil((maxY - minY) / resolution); the map is resized to exactly that
\* grid at that resolution for the render and the bitmap has those dimensions;
\* 1000 m at 1 m/px is 1000 px.
C15_PixelDimensions ==
    [][/\ (lastCall'.outcome = "rendering"
              => /\ IsCeiling(lastCall'.widthPx, lastCall'.extent[3] - lastCall'.extent[1],
                              lastCall'.exportRes)
                 /\ IsCeiling(lastCall'.heightPx, lastCall'.extent[4] - lastCall'.extent[2],
                              lastCall'.exportRes)
                 /\ view'.size = <<lastCall'.widthPx, lastCall'.heightPx>>
                 /\ view'.resolution = lastCall'.exportRes)
       /\ (\A i \in DOMAIN lastDispatch' :
              lastDispatch'[i].outcome = "artifact"
                 => /\ lastDispatch'[i].canvas = lastDispatch'[i].grid.size
                    /\ IsCeiling(lastDispatch'[i].canvas[1],
                                 lastDispatch'[i].extent[3] - lastDispatch'[i].extent[1],
                                 lastDispatch'[i].grid.resolution)
                    /\ IsCeiling(lastDispatch'[i].canvas[2],
                                 lastDispatch'[i].extent[4] - lastDispatch'[i].extent[2],
                                 lastDispatch'[i].grid.resolution))
       /\ CeilDiv((1000 - 0) * 10000, 10000) = 1000]_vars

\* a 21674 m x 1000 m selection exported at 1.3229 m/px resolved an artifact of
\* 16384 x 756 pixels, both quotients being rounded up
C15_Witness ==
    /\ Len(lastDispatch) = 1
    /\ Resolved(1).outcome = "artifact"
    /\ Resolved(1).extent = <<0, 0, 21674, 1000>>
    /\ Resolved(1).grid.resolution = 13229
    /\ Resolved(1).canvas = <<16384, 756>>

\* C16: when the selection collection holds the boundary the call was made with,
\* the clip region applied before the layers are composited is the outline of that
\* boundary, whatever other features the call collected.
C16_ClipIsSelection ==
    [][\A i \in DOMAIN lastDispatch' :
          (/\ lastDispatch'[i].outcome = "artifact"
           /\ sourceRef # <<>>
           /\ \E k \in DOMAIN renderListeners[i].closure.allFeatures :
                 renderListeners[i].closure.allFeatures[k] = sourceRef[Len(sourceRef)])
             => lastDispatch'[i].clip = PathOf(sourceRef[Len(sourceRef)])]_vars

\* C17: a unit change by updateMeasureUnit(u) leaves the four collections, the
\* number of measurement records and each record's feature and kind as they were,
\* makes u the current unit, and sets the text of every Length record to the
\* length of its line formatted in u.
C17_UnitChangeFrame ==
    [][lastInput'.kind = "unit"
          => /\ currentMeasureUnitRef' = measureUnit'
             /\ sourceVars' = sourceVars
             /\ Len(activeMeasurementsRef') = Len(activeMeasurementsRef)
             /\ \A k \in DOMAIN activeMeasurementsRef :
                   /\ activeMeasurementsRef'[k].feature = activeMeasurementsRef[k].feature
                   /\ activeMeasurementsRef'[k].type = activeMeasurementsRef[k].type
                   /\ activeMeasurementsRef[k].type = "Length"
                        => activeMeasurementsRef'[k].overlay =
                             formatLength(activeMeasurementsRef[k].feature, measureUnit')]_vars

\* a Length record whose text was rewritten in kilometres by the unit change
C17_Witness ==
    /\ lastInput.kind = "unit"
    /\ measureUnit = "km"
    /\ \E k \in DOMAIN activeMeasurementsRef :
          /\ activeMeasurementsRef[k].type = "Length"
          /\ activeMeasurementsRef[k].feature = measureSourceRef[k]
          /\ activeMeasurementsRef[k].overlay = Text(30, 2, " km")

\* the readout the pointermove handler writes for a sketch of extent e in unit u
Readout(e, u) ==
    IF sketchRef = "Polygon"
    THEN formatAreaMetric(Feature(sketchRef, e, ""), u)
    ELSE formatLength(Feature(sketchRef, e, ""), u)

\* C18: a unit change made while a measurement tool is active leaves exactly one
\* Draw attached, of the active tool's kind, and every live readout written
\* afterwards for a sketch of the attached Draw is formatted in the unit the host
\* has selected.
C18_UnitChangeReattaches ==
    [][/\ (lastInput'.kind = "unit" /\ activeTool \in MeasureTools)
            => /\ activeTool' = activeTool
               /\ Len(AttachedDraws') = 1
               /\ AttachedDraws'[1].tool = activeTool
               /\ currentMeasureUnitRef' = measureUnit'
       /\ (/\ MeasureSketching
           /\ measureTooltipElementRef' # measureTooltipElementRef
           /\ measureTooltipElementRef' # NoText)
            => \E e \in MeasuredExtents :
                  measureTooltipElementRef' = Readout(e, measureUnit)]_vars

\* kilometres were selected with the length tool active, and the sketch drawn
\* with the re-attached tool shows its length in kilometres
C18_Witness ==
    /\ activeTool = "MeasureLength"
    /\ measureUnit = "km"
    /\ Len(AttachedDraws) = 1
    /\ MeasureSketching
    /\ measureTooltipElementRef = Text(30, 2, " km")

\* C19: when clearAll has run, the selection, imported, points and measurements
\* collections are empty and the list of measurement records is empty, whatever
\* they held before.
C19_ClearAllEmpties ==
    [][lastInput'.kind = "reset"
          => /\ sourceRef' = <<>>
             /\ kmlSourceRef' = <<>>
             /\ pointsSourceRef' = <<>>
             /\ measureSourceRef' = <<>>
             /\ activeMeasurementsRef' = <<>>]_vars

\* a reset that found a feature in each of the four collections and a record
C19_Witness ==
    /\ lastInput.kind = "reset"
    /\ \A i \in 1..5 : lastInput.cleared[i] > 0
    /\ sourceRef = <<>> /\ kmlSourceRef = <<>> /\ pointsSourceRef = <<>>
    /\ measureSourceRef = <<>> /\ activeMeasurementsRef = <<>>

\* C20: when clearAll has run (the host's reset, which follows it with
\* setDrawTool(null)), no Draw interaction is attached to the map and no
\* pointermove listener is subscribed.
C20_ClearAllDetaches ==
    [][lastInput'.kind = "reset"
          => AttachedDraws' = <<>> /\ pointerListeners' = {}]_vars

\* a row of a sheet that has both coordinate columns, whose two values parse to
\* numbers, and whose pair projectFromZone accepts under the zone
RowIsValid(row, zone) ==
    /\ row.x.type # "absent" /\ row.y.type # "absent"
    /\ ~IsNaN(parseCoordinateValue(row.x))
    /\ ~IsNaN(parseCoordinateValue(row.y))
    /\ projectFromZone(parseCoordinateValue(row.x), parseCoordinateValue(row.y), zone) # Null

\* where the point of a valid row is put on the map
RowPosition(row, zone) ==
    fromLonLat(projectFromZone(parseCoordinateValue(row.x), parseCoordinateValue(row.y),
                               zone))

\* C21: an Excel import skips the rows whose coordinates do not parse or are
\* rejected by projectFromZone and loads every other row, in row order; the
\* points collection is replaced if and only if at least one row is valid.
C21_BadRowsSkipped ==
    [][lastInput'.kind \in {"excel", "excelEmpty"}
          => LET zone == lastInput'.zone
                 valid == SelectSeq(lastInput'.rows, LAMBDA r : RowIsValid(r, zone))
             IN /\ (lastInput'.kind = "excel") <=> (valid # <<>>)
                /\ IF valid # <<>>
                   THEN /\ Len(pointsSourceRef') = Len(valid)
                        /\ \A k \in 1..Len(valid) :
                              LET pos == RowPosition(valid[k], zone)
                              IN pointsSourceRef'[k].ext = <<pos[1], pos[2], pos[1], pos[2]>>
                   ELSE pointsSourceRef' = pointsSourceRef]_vars

\* a sheet of three rows whose second is outside the zone: the first and the
\* third are on the map, in that order
C21_Witness ==
    /\ lastInput.kind = "excel"
    /\ lastInput.zone = DefaultZone
    /\ lastInput.rows = <<Row(NumberCell(500000), NumberCell(300000), ""),
                          Row(NumberCell(-2000000), NumberCell(300000), ""),
                          Row(TextCell("0"), NumberCell(0), "B1")>>
    /\ Len(pointsSourceRef) = 2
    /\ pointsSourceRef[1].label = "P1"
    /\ pointsSourceRef[2].label = "B1"

\* a vertex of a drawing that projectFromZone accepts under the zone
VertexProjects(v, zone) == projectFromZone(v[1], v[2], zone) # Null
\* an entity all of whose vertices project
EntityProjects(entity, zone) ==
    \A i \in DOMAIN entity.vertices : VertexProjects(entity.vertices[i], zone)

\* C22: a DXF import adds no feature for a LINE or polyline with a vertex whose
\* coordinates fail projection, and adds one feature, in file order, for every
\* other entity of the file.
C22_FailingEntityDropped ==
    [][lastInput'.kind = "dxf"
          => LET zone == lastInput'.zone
                 kept == SelectSeq(lastInput'.entities, LAMBDA e : EntityProjects(e, zone))
             IN /\ Len(kmlSourceRef') = Len(kept)
                /\ \A k \in 1..Len(kept) :
                      kmlSourceRef'[k].coords =
                         [i \in 1..Len(kept[k].vertices) |->
                             fromLonLat(projectFromZone(kept[k].vertices[i][1],
                                                        kept[k].vertices[i][2], zone))]]_vars

\* C23: every vertex of a feature a DXF import adds comes from a coordinate pair
\* of the drawing that projectFromZone accepted under the zone of the import;
\* a pair it rejected, such as a longitude beyond 180 degrees under the geodetic
\* zone, is the vertex of no feature.
C23_NoRejectedVertex ==
    [][lastInput'.kind = "dxf"
          => \A k \in DOMAIN kmlSourceRef' :
                \A c \in DOMAIN kmlSourceRef'[k].coords :
                   \E n \in DOMAIN lastInput'.entities :
                      \E i \in DOMAIN lastInput'.entities[n].vertices :
                         LET v == lastInput'.entities[n].vertices[i]
                         IN /\ VertexProjects(v, lastInput'.zone)
                            /\ kmlSourceRef'[k].coords[c] =
                                  fromLonLat(projectFromZone(v[1], v[2], lastInput'.zone))]_vars

\* C24: under the geodetic zone projectFromZone returns the pair it was given
\* exactly when |y| <= 90 and |x| <= 180, and null for every other pair, a NaN
\* argument included.
C24_GeodeticRange ==
    (lastInput.kind = "return" /\ lastInput.fn = "projectFromZone"
        /\ lastInput.args[3] = GeodeticZone)
       => LET x == lastInput.args[1]
              y == lastInput.args[2]
              inRange == /\ x # NaN /\ y # NaN
                         /\ -900000 <= y /\ y <= 900000
                         /\ -1800000 <= x /\ x <= 1800000
          IN /\ inRange => lastInput.result = <<x, y>>
             /\ ~inRange => lastInput.result = Null

\* a pair on the bounds is returned, a pair just beyond them and a NaN are not
C24_Witness ==
    /\ lastInput.kind = "return" /\ lastInput.fn = "projectFromZone"
    /\ lastInput.args = <<-1800000, 900000, GeodeticZone>>
    /\ lastInput.result = <<-1800000, 900000>>

\* C25: under a zone other than the geodetic one, an unknown identifier
\* included, projectFromZone always returns: null when proj4 throws (unknown
\* zone, NaN argument) or when the transformed point lies outside latitude
\* [20, 38] x longitude [-19, 1], and the transformed point otherwise.  The pair
\* (0, 0) is inside the envelope under EPSG:26191, 26192 and 26194 and is
\* returned there as a point.
C25_NullOrInEnvelope ==
    (lastInput.kind = "return" /\ lastInput.fn = "projectFromZone"
        /\ lastInput.args[3] # GeodeticZone)
       => LET x == lastInput.args[1]
              y == lastInput.args[2]
              zone == lastInput.args[3]
              r == lastInput.result
              fails == zone \notin RegionalZones \/ x = NaN \/ y = NaN
              inside(ll) == /\ 200000 <= ll[2] /\ ll[2] <= 380000
                            /\ -190000 <= ll[1] /\ ll[1] <= 10000
          IN /\ r = Null \/ (Len(r) = 2 /\ inside(r))
             /\ fails => r = Null
             /\ ~fails => (r = IF inside(Proj4Table[zone][<<x, y>>])
                               THEN Proj4Table[zone][<<x, y>>] ELSE Null)

\* (0, 0) under Merchich zone 1 comes back as the point 10.6036 W, 30.4796 N
C25_Witness ==
    /\ lastInput.kind = "return" /\ lastInput.fn = "projectFromZone"
    /\ lastInput.args = <<0, 0, "EPSG:26191">>
    /\ lastInput.result = <<-106036, 304796>>

\* C25 as stated: the pair (0, 0) is returned as null under every regional zone.
C25_OriginRejected ==
    (lastInput.kind = "return" /\ lastInput.fn = "projectFromZone"
        /\ lastInput.args[3] \in RegionalZones
        /\ lastInput.args[1] = 0 /\ lastInput.args[2] = 0)
       => lastInput.result = Null

\* the decimal writing of a denominator given in tenths
DecimalString(tenths) ==
    IF tenths % 10 = 0 THEN ToString(tenths \div 10)
    ELSE ToString(tenths \div 10) \o "." \o ToString(tenths % 10)

C26_WorldFile ==
    \A i \in DOMAIN lastDispatch :
       LET r == lastDispatch[i]
           t == r.tfw
           west == toLonLatE9(<<r.extent[1], r.extent[2]>>)[1]
           south == toLonLatE9(<<r.extent[1], r.extent[2]>>)[2]
           east == toLonLatE9(<<r.extent[3], r.extent[4]>>)[1]
           north == toLonLatE9(<<r.extent[3], r.extent[4]>>)[2]
       IN t # <<>>
          => /\ Len(t) = 6
             /\ t[2] = 0 /\ t[3] = 0
             /\ t[1] >= 0 /\ t[4] <= 0
             /\ 2 * Abs(t[1] * r.canvas[1] - (east - west)) <= r.canvas[1]
             /\ 2 * Abs(-t[4] * r.canvas[2] - (north - south)) <= r.canvas[2]
             /\ t[5] = west /\ t[6] = north
             /\ west <= east /\ south <= north

\* an export has written a world file with a pixel size and an origin north of
\* the lower edge
C26_Witness ==
    \E i \in DOMAIN lastDispatch :
       /\ lastDispatch[i].tfw # <<>>
       /\ lastDispatch[i].tfw[1] > 0 /\ lastDispatch[i].tfw[4] < 0
       /\ lastDispatch[i].tfw[6] > toLonLatE9(<<lastDispatch[i].extent[1],
                                                lastDispatch[i].extent[2]>>)[2]

\* the n of a label P<n>, 0 for any other label
PointNumber(label) ==
    IF \E n \in 1..(MaxDrawnPoints + 1) : label = PointLabel(n)
    THEN CHOOSE n \in 1..(MaxDrawnPoints + 1) : label = PointLabel(n)
    ELSE 0

\* C27: the points drawn with the Point tool since the points collection was
\* last cleared carry labels P<n> whose n grows in the order they were drawn,
\* so no two of them carry the same label.
C27_PointLabelsIncrease ==
    \A j, k \in DOMAIN pointsSourceRef :
       (j < k /\ PointNumber(pointsSourceRef[j].label) > 0
              /\ PointNumber(pointsSourceRef[k].label) > 0)
          => PointNumber(pointsSourceRef[j].label) < PointNumber(pointsSourceRef[k].label)

\* three points drawn in a row
C27_Witness ==
    /\ Len(pointsSourceRef) = 3
    /\ lastInput.kind = "point"
    /\ pointsSourceRef[1].label = "P1"
    /\ pointsSourceRef[2].label = "P2"
    /\ pointsSourceRef[3].label = "P3"

\* C29: a getMapCanvas call is resolved with a bitmap only by a render-complete
\* dispatch to the listener the call subscribed after it set the view to its
\* export grid; that listener runs once; and at the moment the listener resolves
\* the call, the view has been put back to the size, resolution and centre the
\* call had saved.
C29_ResolvedAfterRestore ==
    [][/\ Len(renderListeners') > Len(renderListeners)
            => LET l == renderListeners'[Len(renderListeners')].closure
               IN view' = ViewOf(<<l.widthPx, l.heightPx>>, l.exportRes, ExtentCenter(l.extent))
       /\ lastDispatch' # <<>>
            => /\ Len(lastDispatch') = Len(renderListeners)
               /\ renderListeners' = <<>>
               /\ LET ok == [i \in DOMAIN lastDispatch' |->
                                lastDispatch'[i].outcome = "artifact"]
                  IN \A i \in DOMAIN lastDispatch' :
                        DispatchView(view, SubSeq(renderListeners, 1, i), ok, 1)
                           = RestoreView(renderListeners[i].closure)]_vars

\* C30: whenever the step is PROCESSING, the export that set it comes to its
\* end and the step becomes DONE (the zip was built) or IDLE (the export failed
\* or was reset), given that the timer fires, render-complete is signalled and
\* generateAsync settles.
C30_ExportEnds == (step = "PROCESSING") ~> (step \in {"DONE", "IDLE"})

\* an export went through timer, render and zip and nothing is left in flight
C30_Witness ==
    /\ step = "DONE" /\ zipBlob = "blob"
    /\ timers = <<>> /\ renderListeners = <<>> /\ packaging = 0

\* C31: after a selection tool was activated or the project was reset, which
\* discard exportData, the step is not DONE before a new SelectionData has been
\* delivered.  Only a delivery stores exportData again, so in SpecStale the step
\* DONE is never met with exportData null, even when an export was in flight at
\* the moment of the discard.
C31_NoStaleDone == step = "DONE" => exportData # <<>>

\* C32: in every state of the host, step SELECTED comes with a stored
\* SelectionData and step DONE with a stored zip.
C32_StepHasItsData ==
    /\ step = "SELECTED" => exportData # <<>>
    /\ step = "DONE" => zipBlob # "null"

\* a selection is stored while the archive of an earlier export is still kept
C32_Witness == step = "SELECTED" /\ exportData # <<>> /\ zipBlob = "blob"

\* C33: whenever the step is SELECTED, the selection collection or the imported
\* collection holds a feature: the geometry of the stored SelectionData is still
\* on the map, also after an import that yields no feature.
C33_SelectedHasGeometry ==
    step = "SELECTED" => (Len(sourceRef) > 0 \/ Len(kmlSourceRef) > 0)

\* C34: a drawing interaction for Rectangle, Polygon, MeasureLength or MeasureArea
\* is attached to the map exactly when activeTool is that tool, and none is
\* attached when activeTool is null or Pan, also right after a selection completes.
C34_ToolAgreesWithMap ==
    /\ activeTool \in SelectionTools \cup MeasureTools
          => (Len(AttachedDraws) = 1 /\ AttachedDraws[1].tool = activeTool)
    /\ activeTool \in {"null", "Pan"} => AttachedDraws = <<>>

\* C35: whenever a measurement tool is active, the unit selected in the host
\* belongs to the family of that tool and is the unit the map component formats
\* its readouts with.
C35_UnitOfActiveTool ==
    /\ activeTool = "MeasureLength"
          => (measureUnit \in LENGTH_UNITS /\ currentMeasureUnitRef = measureUnit)
    /\ activeTool = "MeasureArea"
          => (measureUnit \in AREA_UNITS /\ currentMeasureUnitRef = measureUnit)

C37_ElevationOfPopupPoint ==
    (popupContent.type = "POINT" /\ popupContent.z # Loading)
        => popupContent.z = fetchElevation(popupContent.point)

\* C38: every export that resolves with an artifact has a bitmap whose width and
\* height are both at least 1 pixel and at most 16384 pixels, whatever geometry
\* is exported.
C38_ArtifactDimensions ==
    \A i \in DOMAIN lastDispatch :
        lastDispatch[i].outcome = "artifact"
            => /\ lastDispatch[i].canvas[1] \in 1..MaxCanvasDim
               /\ lastDispatch[i].canvas[2] \in 1..MaxCanvasDim

\* whether handleManualAddPoint turns the entry of a press away
ManualRejected(e) ==
    LET x == parseCoordinateValue(TextCell(e.x))
        y == parseCoordinateValue(TextCell(e.y))
    IN IsNaN(x) \/ IsNaN(y) \/ projectFromZone(x, y, e.zone) = Null

\* C39: a press of the add button with coordinates that do not parse or that
\* projectFromZone rejects leaves the points collection and the point counter as
\* they were; an accepted one appends exactly one point, labelled with the
\* counter the press found, and adds one to the counter; the labels of the points
\* added since the last reset are distinct.
C39_ManualPoint ==
    /\ lastInput.kind = "manual" =>
          IF ManualRejected(lastInput)
          THEN pointsSourceRef = lastInput.points /\ pointCounter = lastInput.counter
          ELSE /\ Len(pointsSourceRef) = Len(lastInput.points) + 1
               /\ SubSeq(pointsSourceRef, 1, Len(lastInput.points)) = lastInput.points
               /\ pointsSourceRef[Len(pointsSourceRef)].label = ManualLabel(lastInput.counter)
               /\ pointCounter = lastInput.counter + 1
    /\ \A i, j \in DOMAIN pointsSourceRef :
          i # j => pointsSourceRef[i].label # pointsSourceRef[j].label

\* a rejected press after two accepted ones
C39_Witness ==
    /\ lastInput.kind = "manual"
    /\ ManualRejected(lastInput)
    /\ Len(pointsSourceRef) = 2
    /\ pointsSourceRef[1].label = "pt 01"
    /\ pointsSourceRef[2].label = "pt 02"
    /\ pointCounter = 3

====
